---- MODULE Spec2Model ----
(***************************************************************************)
(* State-machine model of the simba retrieval core:                        *)
(*   simba/services/qdrant_service.py     (vector index client)            *)
(*   simba/services/embedding_service.py  (embedding caches)               *)
(*   simba/services/retrieval_service.py  (retrieve orchestrator)          *)
(*   simba/vector_store/pgvector.py       (cross-encoder reranker)         *)
(*                                                                         *)
(* Scores are exact integers: one unit is 1/ScoreUnit, so that cosine      *)
(* scores given in hundredths and reciprocal-rank sums 1/(rank+k) share    *)
(* one scale without rounding.                                             *)
(***************************************************************************)
EXTENDS Integers, Sequences, FiniteSets, TLC

VARIABLES
    collections,              \* the Qdrant index: name -> [sparse, points]
    embedding_cache,          \* _embedding_cache: text -> dense vector
    sparse_embedding_cache,   \* _sparse_embedding_cache: text -> sparse vector
    call,                     \* the call being answered: arguments, what the
                              \* dependencies did, and the value returned
    pc,                       \* per thread: where it is in get_embedding or
                              \* get_sparse_embedding, and for which text
    hit,                      \* per thread: what "text in cache" answered
    out                       \* per thread: the value returned or error raised

vars == <<collections, embedding_cache, sparse_embedding_cache, call, pc, hit, out>>

----------------------------------------------------------------------------
(* Bounds of the model *)

MaxPoints == 3        \* point ids 1..MaxPoints
MaxLimit == 2         \* result limits 1..MaxLimit
MaxThreads == 2       \* concurrent callers of the embedding service

(* Program constants *)

ScoreUnit == 100 * 252 \* score units per 1.0: hundredths, and 1/r for r up to 10
RerankFactor == 4     \* retrieve: search_limit = limit * 4 when reranking
PrefetchFactor == 2   \* hybrid_search: each prefetch asks for limit * 2
RRF_K == 1            \* reciprocal rank fusion: 1 / (rank + k), rank from 1

----------------------------------------------------------------------------
(* Generic helpers *)

Range(s) == {s[i] : i \in DOMAIN s}

Take(s, n) == IF n <= 0 THEN <<>> ELSE SubSeq(s, 1, IF n < Len(s) THEN n ELSE Len(s))

IndexOf(s, x) == CHOOSE i \in DOMAIN s : s[i] = x

RECURSIVE Perms(_)
Perms(S) ==
    IF S = {} THEN {<<>>}
    ELSE UNION {{<<x>> \o p : p \in Perms(S \ {x})} : x \in S}

Reverse(s) == [n \in DOMAIN s |-> s[Len(s) + 1 - n]]

NoDup(s) == \A i, j \in DOMAIN s : i # j => s[i] # s[j]

Pct(n) == n * (ScoreUnit \div 100)

(* The elements of S as a sequence, by descending score; equal scores in the *)
(* order of the sequence tie, which lists every element of S.               *)
RECURSIVE SortDesc(_, _, _)
SortDesc(S, score, tie) ==
    IF S = {} THEN <<>>
    ELSE LET best == CHOOSE x \in S : \A y \in S \ {x} :
                         \/ score[x] > score[y]
                         \/ score[x] = score[y] /\ IndexOf(tie, x) < IndexOf(tie, y)
         IN <<best>> \o SortDesc(S \ {best}, score, tie)

----------------------------------------------------------------------------
(* The data of the model: texts, the embedding models, the stored points *)

CollectionNames == {"docs"}
PointIds == 1..MaxPoints
Limits == 1..MaxLimit
Threads == 1..MaxThreads

QueryText == "refund policy"
ChunkTexts == {"refunds take 5 days", "our refund policy", "shipping rates"}
Texts == {QueryText} \cup ChunkTexts

(* the code of the all-zero dense vector, which the model gives no text *)
ZeroVector == 9

(* TextEmbedding.embed: the dense model's vector for a text, as a code. *)
DenseModel(text) ==
    CASE text = "refund policy"       -> 0
      [] text = "refunds take 5 days" -> 1
      [] text = "our refund policy"   -> 2
      [] OTHER                        -> 3

(* SparseTextEmbedding.embed: (indices, values) of a text. *)
SparseModel(text) ==
    CASE text = "refund policy"       -> <<(<<1, 2>>), (<<1, 1>>)>>
      [] text = "refunds take 5 days" -> <<(<<1>>), (<<1>>)>>
      [] text = "our refund policy"   -> <<(<<1, 2>>), (<<1, 1>>)>>
      [] OTHER                        -> <<(<<3>>), (<<1>>)>>

(* Cosine similarity of two dense vectors, in score units. *)
Cosine(a, b) ==
    LET lo == IF a < b THEN a ELSE b
        hi == IF a < b THEN b ELSE a
    IN  CASE lo = hi            -> Pct(100)
          [] lo = 0 /\ hi = 1   -> Pct(91)
          [] lo = 0 /\ hi = 2   -> Pct(85)
          [] lo = 0 /\ hi = 3   -> Pct(40)
          [] lo = 1 /\ hi = 2   -> Pct(80)
          [] OTHER              -> Pct(30)

(* The weight a sparse vector gives to an index (0 when absent). *)
SparseWeight(sv, idx) ==
    IF \E i \in DOMAIN sv[1] : sv[1][i] = idx
    THEN sv[2][CHOOSE i \in DOMAIN sv[1] : sv[1][i] = idx]
    ELSE 0

RECURSIVE DotUpTo(_, _, _)
DotUpTo(qs, ps, n) ==
    IF n = 0 THEN 0
    ELSE qs[2][n] * SparseWeight(ps, qs[1][n]) + DotUpTo(qs, ps, n - 1)

(* Dot product of two sparse vectors, in score units. *)
SparseDot(qs, ps) == ScoreUnit * DotUpTo(qs, ps, Len(qs[1]))

NoSparse == <<>>
NoFilter == "none"
DocumentIds == {"doc-a", "doc-b"}

(* The document a chunk id belongs to, and the payload ingestion stores. *)
DocOf(id) == IF id <= 2 THEN "doc-a" ELSE "doc-b"

ChunkPayload(id, text) ==
    [document_id |-> DocOf(id), document_name |-> DocOf(id) \o ".pdf",
     chunk_text |-> text, chunk_position |-> id]

----------------------------------------------------------------------------
(* The vector index (Qdrant), as the client sees it.  A call either returns *)
(* a value or raises: exc is "none", "UnexpectedResponse" (the server      *)
(* answered with an error status: 404 for a missing collection, or another *)
(* status) or "ResponseHandlingException" (no answer: network, timeout).   *)

Ok(v) == [exc |-> "none", value |-> v]
Raise(e) == [exc |-> e, value |-> <<>>]

Exists(name) == name \in DOMAIN collections

MatchingIds(name, document_id) ==
    {i \in DOMAIN collections[name].points :
        document_id = NoFilter
        \/ collections[name].points[i].payload.document_id = document_id}

ScoredPoint(name, i, score) ==
    [id |-> i, score |-> score, payload |-> collections[name].points[i].payload]

(* The ids ranked by cosine similarity to qv, best first. *)
DenseRanking(name, qv, document_id, tie) ==
    LET ids == MatchingIds(name, document_id)
        sc == [i \in ids |-> Cosine(qv, collections[name].points[i].vector)]
    IN  SortDesc(ids, sc, tie)

(* The ids whose sparse vector shares a term with qs, by dot product. *)
SparseRanking(name, qs, document_id, tie) ==
    LET pts == collections[name].points
        ids == {i \in MatchingIds(name, document_id) :
                    /\ pts[i].sparse # NoSparse
                    /\ SparseDot(qs, pts[i].sparse) > 0}
        sc == [i \in ids |-> SparseDot(qs, pts[i].sparse)]
    IN  SortDesc(ids, sc, tie)

(* Reciprocal rank fusion of two ranked id lists: 1/(rank + k) per list. *)
RRFScore(i, d, s) ==
    (IF i \in Range(d) THEN ScoreUnit \div (IndexOf(d, i) + RRF_K) ELSE 0)
    + (IF i \in Range(s) THEN ScoreUnit \div (IndexOf(s, i) + RRF_K) ELSE 0)

(* client.get_collection *)
GetCollection(name, env) ==
    IF env.info = "transient" THEN Raise("ResponseHandlingException")
    ELSE IF ~Exists(name) THEN Raise("UnexpectedResponse")
    ELSE Ok([sparse_vectors |-> collections[name].sparse])

(* How a query request ends before any ranking is done. *)
QueryFault(name, env) ==
    IF env.query = "conn_error" THEN "ResponseHandlingException"
    ELSE IF ~Exists(name) \/ env.query = "http_error" THEN "UnexpectedResponse"
    ELSE "none"

(* The points of a ranked id list r with their scores sc, as returned. *)
ScoredPoints(name, r, sc) ==
    [n \in DOMAIN r |-> ScoredPoint(name, r[n], sc[r[n]])]

DenseScores(name, qv) ==
    [i \in DOMAIN collections[name].points |->
        Cosine(qv, collections[name].points[i].vector)]

(* client.query_points(query=<dense vector>, query_filter, limit) *)
QueryPointsDense(name, qv, document_id, limit, env) ==
    IF QueryFault(name, env) # "none" THEN Raise(QueryFault(name, env))
    ELSE Ok(ScoredPoints(name,
                         Take(DenseRanking(name, qv, document_id, env.tie), limit),
                         DenseScores(name, qv)))

(* Fusion.RRF over the two prefetched lists d and s, cut to limit *)
FuseRRF(name, d, s, limit, tie) ==
    ScoredPoints(name,
                 Take(SortDesc(Range(d) \cup Range(s),
                               [i \in Range(d) \cup Range(s) |-> RRFScore(i, d, s)],
                               tie), limit),
                 [i \in Range(d) \cup Range(s) |-> RRFScore(i, d, s)])

(* client.query_points(prefetch=[dense, sparse], query=Fusion.RRF, limit) *)
QueryPointsFused(name, qv, qs, document_id, prefetch_limit, limit, env) ==
    IF QueryFault(name, env) # "none" THEN Raise(QueryFault(name, env))
    ELSE Ok(FuseRRF(name,
                    Take(DenseRanking(name, qv, document_id, env.tie), prefetch_limit),
                    Take(SparseRanking(name, qs, document_id, env.tie), prefetch_limit),
                    limit, env.tie))

----------------------------------------------------------------------------
(* qdrant_service.py *)

collection_exists(collection_name) == Exists(collection_name)

(* try: info = client.get_collection(...) ... except Exception: return False *)
HasTextSparse(info) == IF info.exc # "none" THEN FALSE ELSE info.value.sparse_vectors

collection_has_sparse_vectors(collection_name, env) ==
    HasTextSparse(GetCollection(collection_name, env))

(* the list of {"id", "score", "payload"} dicts built from the points *)
ResultDicts(r) ==
    IF r.exc # "none" THEN r
    ELSE Ok([n \in DOMAIN r.value |->
                [id |-> r.value[n].id, score |-> r.value[n].score,
                 payload |-> r.value[n].payload]])

search(collection_name, query_vector, limit, document_id, env) ==
    ResultDicts(QueryPointsDense(collection_name, query_vector, document_id, limit, env))

(* variant: the fallback forgets the document filter *)
hybrid_search_unfiltered(collection_name, query_dense, query_sparse, limit, document_id, env) ==
    IF ~collection_has_sparse_vectors(collection_name, env) \/ query_sparse = NoSparse
    THEN search(collection_name, query_dense, limit, NoFilter, env)
    ELSE ResultDicts(QueryPointsFused(collection_name, query_dense, query_sparse,
                                      document_id, limit * PrefetchFactor, limit, env))

(* the warnings hybrid_search logs: one, when a sparse query was given and  *)
(* the collection is found without sparse support                          *)
hybrid_search_log(collection_name, query_sparse, env) ==
    IF query_sparse # NoSparse /\ ~collection_has_sparse_vectors(collection_name, env)
    THEN <<"Falling back to dense-only search">>
    ELSE <<>>

hybrid_search(collection_name, query_dense, query_sparse, limit, document_id, env) ==
    IF ~collection_has_sparse_vectors(collection_name, env) \/ query_sparse = NoSparse
    THEN search(collection_name, query_dense, limit, document_id, env)
    ELSE ResultDicts(QueryPointsFused(collection_name, query_dense, query_sparse,
                                      document_id, limit * PrefetchFactor, limit, env))

----------------------------------------------------------------------------
(* cachetools.TTLCache, as embedding_service.py uses it: a sequence of      *)
(* [key, value] entries, least recently used first.  An entry whose TTL has *)
(* run out is gone for every operation (CacheExpire).                      *)

CacheMaxSize == 2     \* TTLCache(maxsize=...), scaled to the model's texts

CacheKeys(c) == {c[i].key : i \in DOMAIN c}

CacheWithout(c, k) ==
    LET Other(e) == e.key # k
    IN  SelectSeq(c, Other)

CacheValue(c, k) == c[CHOOSE i \in DOMAIN c : c[i].key = k].value

(* key in cache *)
CacheContains(c, k) == k \in CacheKeys(c)

(* cache[key]: KeyError when the key is absent or expired; a hit moves the *)
(* entry to the most recently used end.                                    *)
CacheGetItem(c, k) ==
    IF k \in CacheKeys(c)
    THEN [exc |-> "none", value |-> CacheValue(c, k),
          cache |-> Append(CacheWithout(c, k), [key |-> k, value |-> CacheValue(c, k)])]
    ELSE [exc |-> "KeyError", value |-> <<>>, cache |-> c]

(* cache[key] = value: makes room by dropping the least recently used entry *)
CacheSetItem(c, k, v) ==
    LET rest == CacheWithout(c, k)
        room == IF Len(rest) >= CacheMaxSize THEN Tail(rest) ELSE rest
    IN  Append(room, [key |-> k, value |-> v])

(* the TTL of key k runs out *)
CacheExpire(c, k) == CacheWithout(c, k)

----------------------------------------------------------------------------
(* embedding_service.py *)

(* variant: a zero vector per text when the model is unavailable *)
get_embeddings_zeros(texts, env) ==
    IF env.emb = "unavailable" THEN Ok([i \in DOMAIN texts |-> ZeroVector])
    ELSE Ok([i \in DOMAIN texts |-> DenseModel(texts[i])])

get_embeddings(texts, env) ==
    IF env.emb = "unavailable" THEN Raise("ModelUnavailable")
    ELSE Ok([i \in DOMAIN texts |-> DenseModel(texts[i])])

(* variant: the outputs come back in the opposite order *)
get_sparse_embeddings_reversed(texts, env) ==
    IF env.semb = "unavailable" THEN Raise("ModelUnavailable")
    ELSE Ok(Reverse([i \in DOMAIN texts |-> SparseModel(texts[i])]))

get_sparse_embeddings(texts, env) ==
    IF env.semb = "unavailable" THEN Raise("ModelUnavailable")
    ELSE Ok([i \in DOMAIN texts |-> SparseModel(texts[i])])

(* embedding = embeddings[0]; cache[text] = embedding; return embedding *)
StoreFirst(embeddings, cache, text) ==
    IF embeddings.exc # "none"
    THEN [exc |-> embeddings.exc, value |-> <<>>, cache |-> cache]
    ELSE [exc |-> "none", value |-> embeddings.value[1],
          cache |-> CacheSetItem(cache, text, embeddings.value[1])]

(* get_embedding run by one caller without interruption by another caller. *)
(* The TTL of a present entry may still run out between the membership     *)
(* test and the read (env.emb = "expires").                                *)
get_embedding(text, env) ==
    IF CacheContains(embedding_cache, text)
    THEN CacheGetItem(IF env.emb = "expires" THEN CacheExpire(embedding_cache, text)
                      ELSE embedding_cache, text)
    ELSE StoreFirst(get_embeddings(<<text>>, env), embedding_cache, text)

get_sparse_embedding(text, env) ==
    IF CacheContains(sparse_embedding_cache, text)
    THEN CacheGetItem(IF env.semb = "expires" THEN CacheExpire(sparse_embedding_cache, text)
                      ELSE sparse_embedding_cache, text)
    ELSE StoreFirst(get_sparse_embeddings(<<text>>, env), sparse_embedding_cache, text)

----------------------------------------------------------------------------
(* The rerankers *)

RerankScores == {Pct(10), Pct(60)}

(* cross_encoder.predict for one (query, text) pair *)
CrossEncoderScore(query, text, env) == env.xscores[text]

Identity(n) == [i \in 1..n |-> i]

(* the chunks in the order of their rerank scores sc, each carrying its    *)
(* rerank score                                                            *)
RescoredChunks(chunks, sc) ==
    [n \in DOMAIN chunks |->
        [chunks[SortDesc(DOMAIN chunks, sc, Identity(Len(chunks)))[n]]
            EXCEPT !.score = sc[SortDesc(DOMAIN chunks, sc, Identity(Len(chunks)))[n]]]]

(* reranker_service.rerank_chunks: score every chunk's text against the     *)
(* query, sort descending, keep top_k, each kept chunk carrying its rerank *)
(* score; when the model cannot be loaded, the first top_k chunks as given. *)
rerank_chunks(query, chunks, top_k, env) ==
    IF env.reranker # "ok" THEN Take(chunks, top_k)
    ELSE Take(RescoredChunks(chunks,
                  [i \in DOMAIN chunks |->
                      CrossEncoderScore(query, chunks[i].chunk_text, env)]), top_k)

(* sorted(zip(scores, initial_results), reverse=True) compares the results *)
(* themselves when two scores are equal, and ChunkEmbedding has no order:  *)
(* TypeError.                                                              *)
SortedZipRaises(scores) ==
    \E i, j \in DOMAIN scores : i # j /\ scores[i] = scores[j]

(* [x for _, x in sorted(zip(scores, initial_results), reverse=True)] *)
SortedByScore(scores, initial_results) ==
    [n \in DOMAIN initial_results |->
        initial_results[SortDesc(DOMAIN scores, scores, Identity(Len(scores)))[n]]]

(* variant: the fallback of the try block hands back every candidate *)
RerankWithScoresUncut(scores, initial_results, top_k) ==
    IF SortedZipRaises(scores) THEN initial_results
    ELSE Take(SortedByScore(scores, initial_results), top_k)

(* the try block once the scores are predicted *)
RerankWithScores(scores, initial_results, top_k) ==
    IF SortedZipRaises(scores) THEN Take(initial_results, top_k)
    ELSE Take(SortedByScore(scores, initial_results), top_k)

(* variant: a reranker that gives up when its model cannot be loaded *)
rerank_with_cross_encoder_strict(query, initial_results, top_k, env) ==
    IF env.reranker = "import_error" THEN <<>>
    ELSE IF env.reranker = "error" THEN <<>>
    ELSE RerankWithScores([i \in DOMAIN initial_results |->
                              CrossEncoderScore(query, initial_results[i].data.page_content,
                                                env)],
                          initial_results, top_k)

(* PGVectorStore._rerank_with_cross_encoder *)
rerank_with_cross_encoder(query, initial_results, top_k, env) ==
    IF env.reranker = "import_error" THEN Take(initial_results, top_k)
    ELSE IF env.reranker = "error" THEN Take(initial_results, top_k)
    ELSE RerankWithScores([i \in DOMAIN initial_results |->
                              CrossEncoderScore(query, initial_results[i].data.page_content,
                                                env)],
                          initial_results, top_k)

(* The rows of chunks_embeddings: PGVectorStore holds the ingested chunks  *)
(* of the collection.                                                      *)
ChunkEmbeddingRow(name, i) ==
    [id |-> i, document_id |-> collections[name].points[i].payload.document_id,
     data |-> [page_content |-> collections[name].points[i].payload.chunk_text]]

ChunkEmbeddingRows(name, ranked) ==
    [n \in DOMAIN ranked |-> ChunkEmbeddingRow(name, ranked[n])]

(* the reranking stage of similarity_search *)
RerankStage(query, results, top_k, rerank, env) ==
    [initial_results |-> results,
     results |-> IF rerank /\ results # <<>>
                 THEN rerank_with_cross_encoder(query, results, top_k, env)
                 ELSE IF Len(results) > top_k THEN Take(results, top_k)
                 ELSE results]

(* PGVectorStore.similarity_search with hybrid_search=False and            *)
(* use_bm25_first_pass=False: vector search, then the reranker.            *)
similarity_search(query, name, top_k, rerank, env) ==
    RerankStage(query,
                IF Exists(name)
                THEN ChunkEmbeddingRows(name,
                        Take(DenseRanking(name, DenseModel(query), NoFilter, env.tie),
                             IF rerank THEN top_k * RerankFactor ELSE top_k))
                ELSE <<>>,
                top_k, rerank, env)

----------------------------------------------------------------------------
(* retrieval_service.py *)

RetrievedChunk(result) ==
    [document_id |-> result.payload.document_id,
     document_name |-> result.payload.document_name,
     chunk_text |-> result.payload.chunk_text,
     chunk_position |-> result.payload.chunk_position,
     score |-> result.score]

(* variant: one candidate short when not reranking *)
SearchLimitShort(limit, rerank) == IF rerank THEN limit * RerankFactor ELSE limit - 1

(* search_limit = limit * 4 if rerank else limit *)
SearchLimit(limit, rerank) == IF rerank THEN limit * RerankFactor ELSE limit

(* the search stage: hybrid or plain search *)
RunSearch(collection_name, query_dense, query_sparse, search_limit, hybrid, env) ==
    IF hybrid
    THEN hybrid_search(collection_name, query_dense, query_sparse, search_limit,
                       NoFilter, env)
    ELSE search(collection_name, query_dense, search_limit, NoFilter, env)

(* variant: no threshold *)
KeepAll(results, min_score) == results

(* the results whose score is at least min_score *)
KeepByScore(results, min_score) ==
    LET Keep(r) == r.score >= min_score
    IN  SelectSeq(results, Keep)

AsChunks(kept) == [n \in DOMAIN kept |-> RetrievedChunk(kept[n])]

(* filter by minimum score and convert to RetrievedChunk objects *)
FilterByMinScore(results, min_score) == AsChunks(KeepByScore(results, min_score))

(* variant: the truncation hands back the kept chunks worst first *)
FinalChunksWorstFirst(query, chunks, limit, rerank, env) ==
    IF rerank /\ chunks # <<>> THEN rerank_chunks(query, chunks, limit, env)
    ELSE IF rerank THEN chunks
    ELSE Reverse(Take(chunks, limit))

(* apply reranking if enabled, else truncate to limit *)
FinalChunks(query, chunks, limit, rerank, env) ==
    IF rerank /\ chunks # <<>> THEN rerank_chunks(query, chunks, limit, env)
    ELSE IF rerank THEN chunks
    ELSE Take(chunks, limit)

(* What retrieve hands back: the exception raised ("none": it returned),   *)
(* the shape of the return value ("tuple" with the latency map, "list"     *)
(* without), the chunks, the keys of the latency map, and the caches as    *)
(* the call left them.  results is what the search stage returned.         *)
Returned(chunks, return_latency, keys, results, dc, sc) ==
    [exc |-> "none", shape |-> IF return_latency THEN "tuple" ELSE "list",
     chunks |-> chunks, latency |-> IF return_latency THEN keys ELSE {},
     results |-> results, dense_cache |-> dc, sparse_cache |-> sc]

Raised(e, dc, sc) ==
    [exc |-> e, shape |-> "none", chunks |-> <<>>, latency |-> {},
     results |-> <<>>, dense_cache |-> dc, sparse_cache |-> sc]

EmbeddingKeys(hybrid) ==
    {"embedding_ms"} \cup (IF hybrid THEN {"sparse_embedding_ms"} ELSE {})

(* retrieve after the filter: rerank or truncate, then return *)
AfterFilter(query, limit, rerank, hybrid, return_latency, env, dc, sc, results, chunks) ==
    Returned(FinalChunks(query, chunks, limit, rerank, env), return_latency,
             EmbeddingKeys(hybrid) \cup {"search_ms", "total_ms"}
                \cup (IF rerank /\ chunks # <<>> THEN {"rerank_ms"} ELSE {}),
             results, dc, sc)

(* variant: no except clause around the search stage *)
AfterSearchNoExcept(query, limit, min_score, rerank, hybrid, return_latency, env, dc, sc, results) ==
    IF results.exc # "none" THEN Raised(results.exc, dc, sc)
    ELSE AfterFilter(query, limit, rerank, hybrid, return_latency, env, dc, sc,
                     results.value, FilterByMinScore(results.value, min_score))

(* retrieve after the search stage: except UnexpectedResponse returns the  *)
(* empty list, any other exception leaves retrieve                         *)
AfterSearch(query, limit, min_score, rerank, hybrid, return_latency, env, dc, sc, results) ==
    IF results.exc = "UnexpectedResponse"
    THEN Returned(<<>>, return_latency,
                  EmbeddingKeys(hybrid) \cup {"search_ms", "total_ms"}, <<>>, dc, sc)
    ELSE IF results.exc # "none" THEN Raised(results.exc, dc, sc)
    ELSE AfterFilter(query, limit, rerank, hybrid, return_latency, env, dc, sc,
                     results.value, FilterByMinScore(results.value, min_score))

(* retrieve after both embeddings: d and s are what the two calls gave *)
AfterEmbeddings(query, collection_name, limit, min_score, rerank, hybrid, return_latency, env, d, s) ==
    IF d.exc # "none" THEN Raised(d.exc, d.cache, sparse_embedding_cache)
    ELSE IF s.exc # "none" THEN Raised(s.exc, d.cache, s.cache)
    ELSE AfterSearch(query, limit, min_score, rerank, hybrid, return_latency, env,
                     d.cache, s.cache,
                     RunSearch(collection_name, d.value, s.value,
                               SearchLimit(limit, rerank), hybrid, env))

retrieve(query, collection_name, limit, min_score, rerank, hybrid, return_latency, env) ==
    AfterEmbeddings(query, collection_name, limit, min_score, rerank, hybrid,
                    return_latency, env,
                    get_embedding(query, env),
                    IF hybrid THEN get_sparse_embedding(query, env)
                    ELSE [exc |-> "none", value |-> NoSparse,
                          cache |-> sparse_embedding_cache])

----------------------------------------------------------------------------
(* Index operations of qdrant_service.py that change the index *)

EmptyMap == [x \in {} |-> 0]

MapPut(f, k, v) == [x \in DOMAIN f \cup {k} |-> IF x = k THEN v ELSE f[x]]

MapDrop(f, k) == [x \in DOMAIN f \ {k} |-> f[x]]

(* variant: the collection is provisioned anew whether or not it exists *)
create_collection_anew(collection_name, with_sparse) ==
    MapPut(collections, collection_name, [sparse |-> with_sparse, points |-> EmptyMap])

(* create_collection: nothing when the name exists *)
create_collection(collection_name, with_sparse) ==
    IF collection_name \in DOMAIN collections THEN collections
    ELSE MapPut(collections, collection_name, [sparse |-> with_sparse, points |-> EmptyMap])

(* delete_collection *)
delete_collection(collection_name) == MapDrop(collections, collection_name)

(* A point as upsert_vectors takes it: keys holds which of the optional    *)
(* keys sparse_indices and sparse_values the dict has.                     *)
PointDict(id, vector, keys, sparse, payload) ==
    [id |-> id, vector |-> vector, keys |-> keys,
     sparse_indices |-> sparse[1], sparse_values |-> sparse[2], payload |-> payload]

(* variant: one of the two sparse keys is taken for a sparse vector *)
PointStructEitherKey(point) ==
    [vector |-> point.vector,
     sparse |-> IF point.keys # {} THEN <<point.sparse_indices, point.sparse_values>>
                ELSE NoSparse,
     payload |-> point.payload]

(* the PointStruct upsert_vectors builds from one dict *)
PointStruct(point) ==
    LET has_sparse == {"sparse_indices", "sparse_values"} \subseteq point.keys
    IN  [vector |-> point.vector,
         sparse |-> IF has_sparse THEN <<point.sparse_indices, point.sparse_values>>
                    ELSE NoSparse,
         payload |-> point.payload]

RECURSIVE PutPoints(_, _)
PutPoints(stored, points) ==
    IF points = <<>> THEN stored
    ELSE PutPoints(MapPut(stored, Head(points).id, PointStruct(Head(points))), Tail(points))

(* client.upsert answers with an error, and stores nothing, when the       *)
(* collection is missing or a point names a sparse vector the collection   *)
(* was not created with.                                                   *)
UpsertRefused(collection_name, points) ==
    \/ collection_name \notin DOMAIN collections
    \/ \E n \in DOMAIN points :
         /\ PointStruct(points[n]).sparse # NoSparse
         /\ ~collections[collection_name].sparse

(* upsert_vectors: the index as the call leaves it *)
upsert_vectors(collection_name, points) ==
    IF UpsertRefused(collection_name, points) THEN collections
    ELSE [collections EXCEPT ![collection_name].points = PutPoints(@, points)]

(* The texts chunk id has had over its document's revisions: what          *)
(* ingestion may store under that id.                                      *)
ChunkVersions(id) ==
    CASE id = 1 -> {"refunds take 5 days"}
      [] id = 2 -> {"our refund policy", "refunds take 5 days"}
      [] OTHER  -> {"shipping rates"}

(* The point ingestion stores for a chunk: its dense embedding and, on a   *)
(* collection with sparse support, its sparse embedding.                   *)
IngestedPoint(id, text, with_sparse) ==
    PointDict(id, DenseModel(text),
              IF with_sparse THEN {"sparse_indices", "sparse_values"} ELSE {},
              SparseModel(text), ChunkPayload(id, text))

----------------------------------------------------------------------------
(* What the dependencies do during one call *)

MinScores == {0, Pct(50)}

DefaultEnv ==
    [emb |-> "ok", semb |-> "ok", info |-> "ok", query |-> "ok",
     tie |-> Identity(MaxPoints), reranker |-> "ok",
     xscores |-> [t \in ChunkTexts |-> Pct(10)]]

(* The embedding stage either works, or fails the way the cache state      *)
(* allows: a present entry can expire under the read, an absent one needs  *)
(* the model, which can be unavailable.                                    *)
EmbOutcomes(cache, text) ==
    IF CacheContains(cache, text) THEN {"ok", "expires"} ELSE {"ok", "unavailable"}

(* the arguments of f that share their value with another argument *)
TiedIn(f) == {i \in DOMAIN f : \E j \in DOMAIN f : j # i /\ f[j] = f[i]}

(* The candidates of a query that come out of the dense or of the sparse   *)
(* ranking with the score of another candidate.                            *)
TiedInRanking(name, qv, qs, document_id, fused) ==
    TiedIn([i \in MatchingIds(name, document_id) |->
               Cosine(qv, collections[name].points[i].vector)])
    \cup (IF fused
          THEN TiedIn([i \in Range(SparseRanking(name, qs, document_id,
                                                 Identity(MaxPoints))) |->
                          SparseDot(qs, collections[name].points[i].sparse)])
          ELSE {})

(* The candidates that come out of the fusion of the lists d and s with    *)
(* the fused score of another candidate.                                   *)
TiedInFusion(d, s) == TiedIn([i \in Range(d) \cup Range(s) |-> RRFScore(i, d, s)])

(* every order of the ids in tied, followed by the other stored ids *)
OrdersOf(name, tied) ==
    {p \o SortDesc(DOMAIN collections[name].points \ tied,
                   [i \in DOMAIN collections[name].points |-> 0 - i],
                   Identity(MaxPoints)) : p \in Perms(tied)}

(* The orders in which the index may return candidates of equal score.     *)
(* Only the relative order of candidates with equal scores matters: the    *)
(* candidates tied in a ranking in any order; for a fused query with       *)
(* untied rankings, the candidates tied in the fusion in any order; for a  *)
(* fused query over tied rankings, any order of the stored ids.            *)
TieOrders(name, qs, document_id, fused, prefetch_limit) ==
    IF ~Exists(name) THEN {Identity(MaxPoints)}
    ELSE IF ~fused
    THEN OrdersOf(name, TiedInRanking(name, DenseModel(QueryText), qs, document_id, FALSE))
    ELSE IF TiedInRanking(name, DenseModel(QueryText), qs, document_id, TRUE) # {}
    THEN Perms(DOMAIN collections[name].points)
    ELSE OrdersOf(name,
             TiedInFusion(Take(DenseRanking(name, DenseModel(QueryText), document_id,
                                            Identity(MaxPoints)), prefetch_limit),
                          Take(SparseRanking(name, qs, document_id,
                                             Identity(MaxPoints)), prefetch_limit)))

(* The cross-encoder's scores for the texts stored in the collection. *)
XScoresOf(name) ==
    LET pts == collections[name].points
        stored == {pts[i].payload.chunk_text : i \in DOMAIN pts}
    IN  {[t \in ChunkTexts |-> IF t \in stored THEN x[t] ELSE Pct(10)] :
            x \in [stored -> RerankScores]}

Idle == [op |-> "idle"]

IdleThread == [at |-> "idle", fn |-> "dense", text |-> QueryText]
NoResult == [exc |-> "pending", value |-> <<>>]

----------------------------------------------------------------------------
(* Actions *)

CreateCollection(name, with_sparse) ==
    /\ call.op = "idle"
    /\ collections' = create_collection(name, with_sparse)
    /\ UNCHANGED <<embedding_cache, sparse_embedding_cache, call, pc, hit, out>>

DeleteCollection(name) ==
    /\ call.op = "idle"
    /\ name \in DOMAIN collections
    /\ collections' = delete_collection(name)
    /\ UNCHANGED <<embedding_cache, sparse_embedding_cache, call, pc, hit, out>>

(* ingestion upserts one chunk *)
UpsertVectors(name, id, text) ==
    /\ call.op = "idle"
    /\ name \in DOMAIN collections
    /\ collections' =
          upsert_vectors(name, <<IngestedPoint(id, text, collections[name].sparse)>>)
    /\ UNCHANGED <<embedding_cache, sparse_embedding_cache, call, pc, hit, out>>

ExpireDenseEntry(text) ==
    /\ call.op = "idle"
    /\ CacheContains(embedding_cache, text)
    /\ embedding_cache' = CacheExpire(embedding_cache, text)
    /\ UNCHANGED <<collections, sparse_embedding_cache, call, pc, hit, out>>

ExpireSparseEntry(text) ==
    /\ call.op = "idle"
    /\ CacheContains(sparse_embedding_cache, text)
    /\ sparse_embedding_cache' = CacheExpire(sparse_embedding_cache, text)
    /\ UNCHANGED <<collections, embedding_cache, call, pc, hit, out>>

Retrieve(name, limit, min_score, rerank, hybrid, return_latency, env) ==
    /\ call.op = "idle"
    /\ LET r == retrieve(QueryText, name, limit, min_score, rerank, hybrid,
                         return_latency, env)
       IN  /\ call' = [op |-> "retrieve",
                       args |-> [query |-> QueryText, collection_name |-> name,
                                 limit |-> limit, min_score |-> min_score,
                                 rerank |-> rerank, hybrid |-> hybrid,
                                 return_latency |-> return_latency],
                       env |-> env, ret |-> r]
           /\ embedding_cache' = r.dense_cache
           /\ sparse_embedding_cache' = r.sparse_cache
    /\ UNCHANGED <<collections, pc, hit, out>>

RetrieveCall ==
    /\ call.op = "idle"
    /\ \E name \in CollectionNames, limit \in Limits, min_score \in MinScores :
       \E rerank \in BOOLEAN, hybrid \in BOOLEAN, return_latency \in BOOLEAN :
       \E emb \in EmbOutcomes(embedding_cache, QueryText) :
       \E semb \in IF hybrid /\ emb = "ok"
                    THEN EmbOutcomes(sparse_embedding_cache, QueryText) ELSE {"ok"} :
       \E info \in IF hybrid /\ emb = "ok" /\ semb = "ok"
                    THEN {"ok", "transient"} ELSE {"ok"} :
       \E query \in IF emb = "ok" /\ semb = "ok"
                     THEN {"ok", "http_error", "conn_error"} ELSE {"ok"} :
       \E tie \in IF emb = "ok" /\ semb = "ok" /\ query = "ok"
                   THEN TieOrders(name, SparseModel(QueryText), NoFilter,
                                  hybrid /\ info = "ok" /\ Exists(name)
                                         /\ collections[name].sparse,
                                  SearchLimit(limit, rerank) * PrefetchFactor)
                   ELSE {Identity(MaxPoints)} :
       \E reranker \in IF rerank /\ emb = "ok" /\ semb = "ok" /\ query = "ok" /\ Exists(name)
                        THEN {"ok", "unavailable"} ELSE {"ok"} :
       \E xs \in IF rerank /\ emb = "ok" /\ semb = "ok" /\ query = "ok" /\ Exists(name)
                     /\ reranker = "ok"
                  THEN XScoresOf(name) ELSE {DefaultEnv.xscores} :
            Retrieve(name, limit, min_score, rerank, hybrid, return_latency,
                     [emb |-> emb, semb |-> semb, info |-> info, query |-> query,
                      tie |-> tie, reranker |-> reranker, xscores |-> xs])

HybridSearch(name, query_sparse, limit, document_id, env) ==
    /\ call.op = "idle"
    /\ call' = [op |-> "hybrid_search",
                args |-> [collection_name |-> name, query_dense |-> DenseModel(QueryText),
                          query_sparse |-> query_sparse, limit |-> limit,
                          document_id |-> document_id],
                env |-> env,
                log |-> hybrid_search_log(name, query_sparse, env),
                ret |-> hybrid_search(name, DenseModel(QueryText), query_sparse, limit,
                                      document_id, env)]
    /\ UNCHANGED <<collections, embedding_cache, sparse_embedding_cache, pc, hit, out>>

HybridSearchCall ==
    /\ call.op = "idle"
    /\ \E name \in CollectionNames, limit \in Limits :
       \E query_sparse \in {NoSparse, SparseModel(QueryText)} :
       \E document_id \in {NoFilter} \cup DocumentIds :
       \E info \in {"ok", "transient"}, query \in {"ok", "http_error", "conn_error"} :
       \E tie \in IF query = "ok"
                   THEN TieOrders(name, query_sparse, document_id,
                                  info = "ok" /\ query_sparse # NoSparse /\ Exists(name)
                                      /\ collections[name].sparse,
                                  limit * PrefetchFactor)
                   ELSE {Identity(MaxPoints)} :
            HybridSearch(name, query_sparse, limit, document_id,
                         [DefaultEnv EXCEPT !.info = info, !.query = query, !.tie = tie])

SimilaritySearch(name, top_k, rerank, env) ==
    /\ call.op = "idle"
    /\ call' = [op |-> "similarity_search",
                args |-> [query |-> QueryText, top_k |-> top_k, rerank |-> rerank],
                env |-> env,
                ret |-> similarity_search(QueryText, name, top_k, rerank, env)]
    /\ UNCHANGED <<collections, embedding_cache, sparse_embedding_cache, pc, hit, out>>

SimilaritySearchCall ==
    /\ call.op = "idle"
    /\ \E name \in CollectionNames, top_k \in Limits, rerank \in BOOLEAN :
       \E tie \in TieOrders(name, NoSparse, NoFilter, FALSE, 0) :
       \E reranker \in IF rerank THEN {"ok", "import_error", "error"} ELSE {"ok"} :
       \E xs \in IF rerank /\ reranker = "ok" /\ Exists(name)
                  THEN XScoresOf(name) ELSE {DefaultEnv.xscores} :
            SimilaritySearch(name, top_k, rerank,
                             [DefaultEnv EXCEPT !.tie = tie, !.reranker = reranker,
                                                !.xscores = xs])

(* a direct call of get_embedding (fn = "dense") or get_sparse_embedding;   *)
(* before holds the two caches as the call found them                      *)
GetEmbedding(fn, text, env) ==
    /\ call.op = "idle"
    /\ LET r == IF fn = "dense" THEN get_embedding(text, env)
                ELSE get_sparse_embedding(text, env)
       IN  /\ call' = [op |-> "get_embedding", args |-> [fn |-> fn, text |-> text],
                       env |-> env,
                       before |-> [dense |-> embedding_cache,
                                   sparse |-> sparse_embedding_cache],
                       ret |-> [exc |-> r.exc, value |-> r.value]]
           /\ IF fn = "dense"
              THEN embedding_cache' = r.cache /\ UNCHANGED sparse_embedding_cache
              ELSE sparse_embedding_cache' = r.cache /\ UNCHANGED embedding_cache
    /\ UNCHANGED <<collections, pc, hit, out>>

GetEmbeddingCall ==
    /\ call.op = "idle"
    /\ \E fn \in {"dense", "sparse"} :
       \E outcome \in EmbOutcomes(IF fn = "dense" THEN embedding_cache
                                  ELSE sparse_embedding_cache, QueryText) :
            GetEmbedding(fn, QueryText,
                         IF fn = "dense" THEN [DefaultEnv EXCEPT !.emb = outcome]
                         ELSE [DefaultEnv EXCEPT !.semb = outcome])

(* the caller takes the answer *)
Return ==
    /\ call.op # "idle"
    /\ call.op = "migrate_collection" => call.pc = "done"
    /\ call' = Idle
    /\ UNCHANGED <<collections, embedding_cache, sparse_embedding_cache, pc, hit, out>>

----------------------------------------------------------------------------
(* The retrieval core: index operations and the calls that read the index *)

Init ==
    /\ collections = EmptyMap
    /\ embedding_cache = <<>>
    /\ sparse_embedding_cache = <<>>
    /\ call = Idle
    /\ pc = [t \in Threads |-> IdleThread]
    /\ hit = [t \in Threads |-> FALSE]
    /\ out = [t \in Threads |-> NoResult]

Next ==
    \/ \E name \in CollectionNames, with_sparse \in BOOLEAN :
          CreateCollection(name, with_sparse)
    \/ \E name \in CollectionNames : DeleteCollection(name)
    \/ \E name \in CollectionNames, id \in PointIds :
          \E text \in ChunkVersions(id) : UpsertVectors(name, id, text)
    \/ ExpireDenseEntry(QueryText)
    \/ ExpireSparseEntry(QueryText)
    \/ RetrieveCall
    \/ HybridSearchCall
    \/ SimilaritySearchCall
    \/ GetEmbeddingCall
    \/ Return

Spec == Init /\ [][Next]_vars

----------------------------------------------------------------------------
(* The embedding caches under concurrent callers.  get_embedding and       *)
(* get_sparse_embedding hold no lock: between "text in cache", the read    *)
(* "cache[text]" and the store "cache[text] = embedding" of one caller,     *)
(* other callers and the TTL act on the same cache.  Each cache operation  *)
(* is taken as one step.                                                   *)

CacheOf(fn) == IF fn = "dense" THEN embedding_cache ELSE sparse_embedding_cache

(* the vector the model of fn produces for text *)
ModelOf(fn, text) == IF fn = "dense" THEN DenseModel(text) ELSE SparseModel(text)

EmbeddingsOf(fn, text) ==
    IF fn = "dense" THEN get_embeddings(<<text>>, DefaultEnv)
    ELSE get_sparse_embeddings(<<text>>, DefaultEnv)

(* a caller enters get_embedding(text) or get_sparse_embedding(text) *)
EnterGetEmbedding(t, fn, text) ==
    /\ pc[t].at = "idle"
    /\ pc' = [pc EXCEPT ![t] = [at |-> "check", fn |-> fn, text |-> text]]
    /\ UNCHANGED <<collections, embedding_cache, sparse_embedding_cache, call, hit, out>>

(* if text in _embedding_cache: *)
CheckCache(t) ==
    /\ pc[t].at = "check"
    /\ hit' = [hit EXCEPT ![t] = CacheContains(CacheOf(pc[t].fn), pc[t].text)]
    /\ pc' = [pc EXCEPT ![t].at = IF hit'[t] THEN "read" ELSE "miss"]
    /\ UNCHANGED <<collections, embedding_cache, sparse_embedding_cache, call, out>>

(* return _embedding_cache[text] *)
ReadCache(t) ==
    /\ pc[t].at = "read"
    /\ LET r == CacheGetItem(CacheOf(pc[t].fn), pc[t].text)
       IN  /\ out' = [out EXCEPT ![t] = [exc |-> r.exc, value |-> r.value]]
           /\ IF pc[t].fn = "dense"
              THEN embedding_cache' = r.cache /\ UNCHANGED sparse_embedding_cache
              ELSE sparse_embedding_cache' = r.cache /\ UNCHANGED embedding_cache
    /\ pc' = [pc EXCEPT ![t].at = "done"]
    /\ UNCHANGED <<collections, call, hit>>

(* embeddings = get_embeddings([text]); _embedding_cache[text] = embeddings[0] *)
StoreCache(t) ==
    /\ pc[t].at = "miss"
    /\ LET r == StoreFirst(EmbeddingsOf(pc[t].fn, pc[t].text), CacheOf(pc[t].fn),
                           pc[t].text)
       IN  /\ out' = [out EXCEPT ![t] = [exc |-> r.exc, value |-> r.value]]
           /\ IF pc[t].fn = "dense"
              THEN embedding_cache' = r.cache /\ UNCHANGED sparse_embedding_cache
              ELSE sparse_embedding_cache' = r.cache /\ UNCHANGED embedding_cache
    /\ pc' = [pc EXCEPT ![t].at = "done"]
    /\ UNCHANGED <<collections, call, hit>>

(* the caller takes the value (or the exception) *)
LeaveGetEmbedding(t) ==
    /\ pc[t].at = "done"
    /\ pc' = [pc EXCEPT ![t] = IdleThread]
    /\ hit' = [hit EXCEPT ![t] = FALSE]
    /\ out' = [out EXCEPT ![t] = NoResult]
    /\ UNCHANGED <<collections, embedding_cache, sparse_embedding_cache, call>>

NextCache ==
    \/ \E t \in Threads, fn \in {"dense", "sparse"}, text \in Texts :
          EnterGetEmbedding(t, fn, text)
    \/ \E t \in Threads : CheckCache(t)
    \/ \E t \in Threads : ReadCache(t)
    \/ \E t \in Threads : StoreCache(t)
    \/ \E t \in Threads : LeaveGetEmbedding(t)
    \/ \E text \in Texts : ExpireDenseEntry(text)
    \/ \E text \in Texts : ExpireSparseEntry(text)

SpecCache == Init /\ [][NextCache]_vars

----------------------------------------------------------------------------
(* The index under the calls that write it: create_collection,             *)
(* delete_collection, upsert_vectors and the Collection Migrator.  A call  *)
(* is observed in the state where call holds its arguments, the index as   *)
(* it found it (before) and what it gave back.                             *)

MaxBatch == 2         \* batch sizes 1..MaxBatch of the Migrator

BatchSizes == 1..MaxBatch

(* the texts a point may be upserted with; chunk 1 has a revision without  *)
(* text                                                                    *)
UpsertTexts(id) == ChunkVersions(id) \cup (IF id = 1 THEN {""} ELSE {})

(* the optional keys a point dict may have *)
SparseKeySets == {{}, {"sparse_indices"}, {"sparse_indices", "sparse_values"}}

UpsertPoints ==
    {PointDict(id, DenseModel(text), keys, SparseModel(text), ChunkPayload(id, text)) :
        id \in PointIds, text \in ChunkTexts \cup {""}, keys \in SparseKeySets}

(* the requests made of upsert_vectors: one point, or two for one id *)
UpsertRequests ==
    {<<p>> : p \in {q \in UpsertPoints : q.payload.chunk_text \in UpsertTexts(q.id)}}
    \cup {<<p, q>> : p, q \in {r \in UpsertPoints : r.payload.chunk_text \in UpsertTexts(r.id)
                                                    /\ r.id = 1}}

CreateCollectionCall(name, with_sparse) ==
    /\ call.op = "idle"
    /\ collections' = create_collection(name, with_sparse)
    /\ call' = [op |-> "create_collection",
                args |-> [collection_name |-> name, with_sparse |-> with_sparse],
                before |-> collections, ret |-> [exc |-> "none"]]
    /\ UNCHANGED <<embedding_cache, sparse_embedding_cache, pc, hit, out>>

UpsertVectorsCall(name, points) ==
    /\ call.op = "idle"
    /\ collections' = upsert_vectors(name, points)
    /\ call' = [op |-> "upsert_vectors",
                args |-> [collection_name |-> name, points |-> points],
                before |-> collections,
                ret |-> [exc |-> IF UpsertRefused(name, points)
                                 THEN "UnexpectedResponse" ELSE "none"]]
    /\ UNCHANGED <<embedding_cache, sparse_embedding_cache, pc, hit, out>>

(* The Collection Migrator, migrate_sparse.py.  migrate_collection is a    *)
(* sequence of requests to the index and the sparse model; each request    *)
(* is one step, and each can fail.  A request that fails has changed       *)
(* nothing.  call.pc is the request the run makes next, call.failed the    *)
(* part of the run where a request first failed, call.past whether the     *)
(* run went past the precondition check.                                   *)

TempName(collection_name) == collection_name \o "_migration_temp"

None == 0             \* the offset of a scroll that starts, or has no next page

RECURSIVE Ascending(_)
Ascending(S) ==
    IF S = {} THEN <<>>
    ELSE LET m == CHOOSE x \in S : \A y \in S : x <= y
         IN  <<m>> \o Ascending(S \ {m})

(* a point as client.scroll returns it with_vectors and with_payload: the  *)
(* vector is the dense vector with the sparse vector the point has         *)
Record(name, id) ==
    [id |-> id,
     vector |-> [dense |-> collections[name].points[id].vector,
                 sparse |-> collections[name].points[id].sparse],
     payload |-> collections[name].points[id].payload]

(* variant: the next page starts after the id the index names *)
scroll_skipping(name, limit, offset) ==
    LET ids == Ascending({i \in DOMAIN collections[name].points : i >= offset})
    IN  [results |-> [n \in DOMAIN Take(ids, limit) |-> Record(name, ids[n])],
         offset |-> IF Len(ids) > limit + 1 THEN ids[limit + 2] ELSE None]

(* client.scroll: a page of at most limit points in id order from offset,  *)
(* and the id the next page starts at                                      *)
scroll(name, limit, offset) ==
    LET ids == Ascending({i \in DOMAIN collections[name].points : i >= offset})
    IN  [results |-> [n \in DOMAIN Take(ids, limit) |-> Record(name, ids[n])],
         offset |-> IF Len(ids) > limit THEN ids[limit + 1] ELSE None]

HasText(point) == point.payload.chunk_text # ""

WithText(results) == SelectSeq(results, HasText)

WithoutText(results) == SelectSeq(results, LAMBDA point : ~HasText(point))

texts_to_embed(results) ==
    [n \in DOMAIN WithText(results) |-> WithText(results)[n].payload.chunk_text]

(* variant: every point is copied as it is, no sparse vector is attached *)
points_to_insert_as_is(results, sparse_embeddings) ==
    WithoutText(results) \o WithText(results)

(* the PointStructs of one staged batch: points without text as they are,  *)
(* then the points with text, each with its dense vector and the sparse    *)
(* embedding zip pairs it with                                             *)
points_to_insert(results, sparse_embeddings) ==
    WithoutText(results)
    \o [n \in DOMAIN WithText(results) |->
           [id |-> WithText(results)[n].id,
            vector |-> [dense |-> WithText(results)[n].vector.dense,
                        sparse |-> sparse_embeddings[n]],
            payload |-> WithText(results)[n].payload]]

(* the PointStructs of one batch copied from the temporary collection *)
points_to_copy(results) ==
    [n \in DOMAIN results |->
        [id |-> results[n].id, vector |-> results[n].vector,
         payload |-> results[n].payload]]

(* client.upsert of PointStructs: the stored points afterwards *)
RECURSIVE PutStructs(_, _)
PutStructs(stored, points) ==
    IF points = <<>> THEN stored
    ELSE PutStructs(MapPut(stored, Head(points).id,
                           [vector |-> Head(points).vector.dense,
                            sparse |-> Head(points).vector.sparse,
                            payload |-> Head(points).payload]),
                    Tail(points))

(* client.create_collection with the text-sparse configuration *)
CreateSparse(name) == MapPut(collections, name, [sparse |-> TRUE, points |-> EmptyMap])

MigrateSteps ==
    {"exists", "has_sparse", "stale_exists", "stale_delete", "create_temp", "get_info",
     "stage", "delete_original", "create_final", "copy", "delete_temp",
     "cleanup_exists", "cleanup_delete", "done"}

(* the part of the run a step belongs to *)
PhaseOf(step) ==
    CASE step \in {"exists", "has_sparse"}                            -> "precondition"
      [] step \in {"stale_exists", "stale_delete"}                    -> "stale"
      [] step \in {"create_temp", "get_info", "stage"}                -> "staging"
      [] step \in {"delete_original", "create_final", "copy"}         -> "swapping"
      [] step = "delete_temp"                                         -> "cleanup"
      [] OTHER                                                        -> "handler"

InMigrate == call.op = "migrate_collection"

At(step) == InMigrate /\ call.pc = step

(* the run goes on with step; the index is as the step's request left it *)
Goto(step) ==
    /\ call' = [call EXCEPT !.pc = step]
    /\ UNCHANGED <<embedding_cache, sparse_embedding_cache, pc, hit, out>>

(* return value *)
Finish(value) ==
    /\ call' = [call EXCEPT !.pc = "done", !.ret = value]
    /\ UNCHANGED <<collections, embedding_cache, sparse_embedding_cache, pc, hit, out>>

(* a request raises outside the try statement: the exception leaves        *)
(* migrate_collection                                                      *)
Propagate ==
    /\ call' = [call EXCEPT !.pc = "done", !.ret = "raised",
                            !.failed = IF @ = "none" THEN PhaseOf(call.pc) ELSE @]
    /\ UNCHANGED <<collections, embedding_cache, sparse_embedding_cache, pc, hit, out>>

(* a request raises inside the try statement: except Exception *)
Except ==
    /\ call' = [call EXCEPT !.pc = "cleanup_exists", !.failed = PhaseOf(call.pc)]
    /\ UNCHANGED <<collections, embedding_cache, sparse_embedding_cache, pc, hit, out>>

MigrateCollectionCall(collection_name, batch_size) ==
    /\ call.op = "idle"
    /\ call' = [op |-> "migrate_collection",
                args |-> [collection_name |-> collection_name, batch_size |-> batch_size],
                before |-> collections, pc |-> "exists", offset |-> None,
                past |-> FALSE, failed |-> "none", ret |-> "pending"]
    /\ UNCHANGED <<collections, embedding_cache, sparse_embedding_cache, pc, hit, out>>

(* if not collection_exists(collection_name): return False *)
CheckExists ==
    /\ At("exists")
    /\ \/ Propagate
       \/ IF collection_exists(call.args.collection_name)
          THEN Goto("has_sparse") /\ UNCHANGED collections
          ELSE Finish("False")

(* if collection_has_sparse_vectors(collection_name): return True *)
CheckHasSparse ==
    /\ At("has_sparse")
    /\ \E info \in {"ok", "transient"} :
          IF collection_has_sparse_vectors(call.args.collection_name,
                                           [DefaultEnv EXCEPT !.info = info])
          THEN Finish("True")
          ELSE /\ call' = [call EXCEPT !.pc = "stale_exists", !.past = TRUE]
               /\ UNCHANGED <<collections, embedding_cache, sparse_embedding_cache,
                              pc, hit, out>>

(* if collection_exists(temp_collection): *)
CheckStale ==
    /\ At("stale_exists")
    /\ \/ Propagate
       \/ /\ Goto(IF collection_exists(TempName(call.args.collection_name))
                  THEN "stale_delete" ELSE "create_temp")
          /\ UNCHANGED collections

(* client.delete_collection(temp_collection), before the try statement *)
DeleteStale ==
    /\ At("stale_delete")
    /\ \/ Propagate
       \/ /\ collections' = delete_collection(TempName(call.args.collection_name))
          /\ Goto("create_temp")

(* Step 1: client.create_collection(temp_collection, ...) *)
CreateTemp ==
    /\ At("create_temp")
    /\ \/ Except
       \/ /\ collections' = CreateSparse(TempName(call.args.collection_name))
          /\ Goto("get_info")

(* Step 2: client.get_collection(collection_name).points_count *)
GetInfo ==
    /\ At("get_info")
    /\ \/ Except
       \/ /\ call' = [call EXCEPT !.pc = "stage", !.offset = None]
          /\ UNCHANGED <<collections, embedding_cache, sparse_embedding_cache, pc, hit, out>>

(* one turn of the staging loop with the page and the embeddings it got *)
StageBatch(page, sparse_embeddings) ==
    IF page.results = <<>>
    THEN Goto("delete_original") /\ UNCHANGED collections
    ELSE IF sparse_embeddings.exc # "none" THEN Except
    ELSE \/ Except
         \/ /\ collections' =
                  [collections EXCEPT ![TempName(call.args.collection_name)].points =
                      PutStructs(@, points_to_insert(page.results, sparse_embeddings.value))]
            /\ call' = [call EXCEPT !.offset = page.offset,
                                    !.pc = IF page.offset = None
                                           THEN "delete_original" ELSE "stage"]
            /\ UNCHANGED <<embedding_cache, sparse_embedding_cache, pc, hit, out>>

(* Step 3: scroll a batch, embed its texts, upsert it into the temporary   *)
(* collection                                                              *)
Stage ==
    /\ At("stage")
    /\ \/ Except
       \/ \E semb \in {"ok", "unavailable"} :
             /\ semb = "unavailable"
                => texts_to_embed(scroll(call.args.collection_name, call.args.batch_size,
                                         call.offset).results) # <<>>
             /\ StageBatch(scroll(call.args.collection_name, call.args.batch_size,
                                  call.offset),
                           get_sparse_embeddings(
                               texts_to_embed(scroll(call.args.collection_name,
                                                     call.args.batch_size,
                                                     call.offset).results),
                               [DefaultEnv EXCEPT !.semb = semb]))

(* Step 4: client.delete_collection(collection_name) *)
DeleteOriginal ==
    /\ At("delete_original")
    /\ \/ Except
       \/ /\ collections' = delete_collection(call.args.collection_name)
          /\ Goto("create_final")

(* client.create_collection(collection_name, ...) with sparse support *)
CreateFinal ==
    /\ At("create_final")
    /\ \/ Except
       \/ /\ collections' = CreateSparse(call.args.collection_name)
          /\ call' = [call EXCEPT !.pc = "copy", !.offset = None]
          /\ UNCHANGED <<embedding_cache, sparse_embedding_cache, pc, hit, out>>

(* one turn of the loop that copies from the temporary collection *)
CopyBatch(page) ==
    IF page.results = <<>>
    THEN Goto("delete_temp") /\ UNCHANGED collections
    ELSE \/ Except
         \/ /\ collections' =
                  [collections EXCEPT ![call.args.collection_name].points =
                      PutStructs(@, points_to_copy(page.results))]
            /\ call' = [call EXCEPT !.offset = page.offset,
                                    !.pc = IF page.offset = None
                                           THEN "delete_temp" ELSE "copy"]
            /\ UNCHANGED <<embedding_cache, sparse_embedding_cache, pc, hit, out>>

Copy ==
    /\ At("copy")
    /\ \/ Except
       \/ CopyBatch(scroll(TempName(call.args.collection_name), call.args.batch_size,
                           call.offset))

(* client.delete_collection(temp_collection); return True *)
DeleteTemp ==
    /\ At("delete_temp")
    /\ \/ Except
       \/ /\ collections' = delete_collection(TempName(call.args.collection_name))
          /\ call' = [call EXCEPT !.pc = "done", !.ret = "True"]
          /\ UNCHANGED <<embedding_cache, sparse_embedding_cache, pc, hit, out>>

(* except Exception: if collection_exists(temp_collection): *)
CleanupExists ==
    /\ At("cleanup_exists")
    /\ \/ Propagate
       \/ IF collection_exists(TempName(call.args.collection_name))
          THEN Goto("cleanup_delete") /\ UNCHANGED collections
          ELSE Finish("False")

(* client.delete_collection(temp_collection); return False *)
CleanupDelete ==
    /\ At("cleanup_delete")
    /\ \/ Propagate
       \/ /\ collections' = delete_collection(TempName(call.args.collection_name))
          /\ call' = [call EXCEPT !.pc = "done", !.ret = "False"]
          /\ UNCHANGED <<embedding_cache, sparse_embedding_cache, pc, hit, out>>

(* the batches of texts ingestion and the Migrator embed at once *)
RECURSIVE SeqsUpTo(_, _)
SeqsUpTo(S, n) ==
    IF n = 0 THEN {<<>>}
    ELSE SeqsUpTo(S, n - 1)
         \cup {Append(s, x) : s \in {q \in SeqsUpTo(S, n - 1) : Len(q) = n - 1}, x \in S}

TextBatches == SeqsUpTo(ChunkTexts, MaxBatch)

(* a call of get_embeddings (fn = "dense") or get_sparse_embeddings *)
GetEmbeddingsCall(fn, texts, model) ==
    /\ call.op = "idle"
    /\ call' = [op |-> "get_embeddings", args |-> [fn |-> fn, texts |-> texts],
                ret |-> IF fn = "dense"
                        THEN get_embeddings(texts, [DefaultEnv EXCEPT !.emb = model])
                        ELSE get_sparse_embeddings(texts, [DefaultEnv EXCEPT !.semb = model])]
    /\ UNCHANGED <<collections, embedding_cache, sparse_embedding_cache, pc, hit, out>>

NextIndex ==
    \/ \E name \in CollectionNames, with_sparse \in BOOLEAN :
          CreateCollectionCall(name, with_sparse)
    \/ \E name \in CollectionNames : DeleteCollection(name)
    \/ \E name \in CollectionNames, points \in UpsertRequests :
          UpsertVectorsCall(name, points)
    \/ \E name \in CollectionNames, batch_size \in BatchSizes :
          MigrateCollectionCall(name, batch_size)
    \/ \E fn \in {"dense", "sparse"}, texts \in TextBatches :
       \E model \in {"ok", "unavailable"} : GetEmbeddingsCall(fn, texts, model)
    \/ CheckExists
    \/ CheckHasSparse
    \/ CheckStale
    \/ DeleteStale
    \/ CreateTemp
    \/ GetInfo
    \/ Stage
    \/ DeleteOriginal
    \/ CreateFinal
    \/ Copy
    \/ DeleteTemp
    \/ CleanupExists
    \/ CleanupDelete
    \/ Return

SpecIndex == Init /\ [][NextIndex]_vars

----------------------------------------------------------------------------
(* retrieve_formatted, the wrapper the chat agent's rag tool calls: the    *)
(* chunks of retrieve as one context string.  limit is the caller's;       *)
(* min_score, rerank and hybrid are not passed and come from the settings. *)

NoInformation == "No relevant information found in the knowledge base."

Separator == "\n\n---\n\n"

(* variant: sources are numbered from zero *)
context_part_from_zero(i, chunk) ==
    "[Source " \o ToString(i - 1) \o ": " \o chunk.document_name \o "]\n" \o chunk.chunk_text

(* f"[Source {i}: {chunk.document_name}]\n{chunk.chunk_text}" *)
context_part(i, chunk) ==
    "[Source " \o ToString(i) \o ": " \o chunk.document_name \o "]\n" \o chunk.chunk_text

(* for i, chunk in enumerate(chunks, 1): context_parts.append(...) *)
context_parts(chunks) == [i \in DOMAIN chunks |-> context_part(i, chunks[i])]

(* sep.join(parts) *)
RECURSIVE Join(_, _)
Join(sep, parts) ==
    IF parts = <<>> THEN ""
    ELSE IF Len(parts) = 1 THEN parts[1]
    ELSE parts[1] \o sep \o Join(sep, Tail(parts))

(* variant: no test for an empty list of chunks *)
format_output_unguarded(chunks) == Join(Separator, context_parts(chunks))

(* output: the fixed sentence for no chunks, else the joined parts *)
format_output(chunks) ==
    IF chunks = <<>> THEN NoInformation
    ELSE Join(Separator, context_parts(chunks))

(* what retrieve_formatted gives back for what retrieve gave it *)
Formatted(r, return_latency) ==
    IF r.exc # "none"
    THEN [exc |-> r.exc, shape |-> "none", output |-> "", latency |-> {}, chunks |-> <<>>,
          dense_cache |-> r.dense_cache, sparse_cache |-> r.sparse_cache]
    ELSE [exc |-> "none", shape |-> IF return_latency THEN "tuple" ELSE "str",
          output |-> format_output(r.chunks), latency |-> r.latency, chunks |-> r.chunks,
          dense_cache |-> r.dense_cache, sparse_cache |-> r.sparse_cache]

retrieve_formatted(query, collection_name, limit, return_latency, settings, env) ==
    Formatted(retrieve(query, collection_name,
                       IF limit = None THEN settings.retrieval_limit ELSE limit,
                       settings.retrieval_min_score, settings.retrieval_rerank,
                       settings.retrieval_hybrid, return_latency, env),
              return_latency)

RetrieveFormatted(name, limit, return_latency, settings, env) ==
    /\ call.op = "idle"
    /\ LET r == retrieve_formatted(QueryText, name, limit, return_latency, settings, env)
       IN  /\ call' = [op |-> "retrieve_formatted",
                       args |-> [query |-> QueryText, collection_name |-> name,
                                 limit |-> limit, return_latency |-> return_latency],
                       settings |-> settings, env |-> env,
                       ret |-> [exc |-> r.exc, shape |-> r.shape, output |-> r.output,
                                latency |-> r.latency, chunks |-> r.chunks]]
           /\ embedding_cache' = r.dense_cache
           /\ sparse_embedding_cache' = r.sparse_cache
    /\ UNCHANGED <<collections, pc, hit, out>>

(* the caller names the smallest limit, or none: then the configured one   *)
(* applies                                                                 *)
RetrieveFormattedCall ==
    /\ call.op = "idle"
    /\ \E name \in CollectionNames, limit \in {1, None}, min_score \in MinScores :
       \E rerank \in BOOLEAN, hybrid \in BOOLEAN, return_latency \in BOOLEAN :
       \E emb \in EmbOutcomes(embedding_cache, QueryText) :
       \E semb \in IF hybrid /\ emb = "ok"
                    THEN EmbOutcomes(sparse_embedding_cache, QueryText) ELSE {"ok"} :
       \E info \in IF hybrid /\ emb = "ok" /\ semb = "ok"
                    THEN {"ok", "transient"} ELSE {"ok"} :
       \E query \in IF emb = "ok" /\ semb = "ok"
                     THEN {"ok", "http_error", "conn_error"} ELSE {"ok"} :
       \E tie \in IF emb = "ok" /\ semb = "ok" /\ query = "ok"
                   THEN TieOrders(name, SparseModel(QueryText), NoFilter,
                                  hybrid /\ info = "ok" /\ Exists(name)
                                         /\ collections[name].sparse,
                                  SearchLimit(IF limit = None THEN MaxLimit ELSE limit,
                                              rerank) * PrefetchFactor)
                   ELSE {Identity(MaxPoints)} :
       \E reranker \in IF rerank /\ emb = "ok" /\ semb = "ok" /\ query = "ok" /\ Exists(name)
                        THEN {"ok", "unavailable"} ELSE {"ok"} :
       \E xs \in IF rerank /\ emb = "ok" /\ semb = "ok" /\ query = "ok" /\ Exists(name)
                     /\ reranker = "ok"
                  THEN XScoresOf(name) ELSE {DefaultEnv.xscores} :
            RetrieveFormatted(name, limit, return_latency,
                              [retrieval_limit |-> MaxLimit, retrieval_min_score |-> min_score,
                               retrieval_rerank |-> rerank, retrieval_hybrid |-> hybrid],
                              [emb |-> emb, semb |-> semb, info |-> info, query |-> query,
                               tie |-> tie, reranker |-> reranker, xscores |-> xs])

NextFormatted ==
    \/ \E name \in CollectionNames, with_sparse \in BOOLEAN :
          CreateCollection(name, with_sparse)
    \/ \E name \in CollectionNames : DeleteCollection(name)
    \/ \E name \in CollectionNames, id \in PointIds :
          \E text \in ChunkVersions(id) : UpsertVectors(name, id, text)
    \/ ExpireDenseEntry(QueryText)
    \/ ExpireSparseEntry(QueryText)
    \/ RetrieveFormattedCall
    \/ Return

SpecFormatted == Init /\ [][NextFormatted]_vars

----------------------------------------------------------------------------
(* The process and its configuration.  The settings are read once, when    *)
(* the process starts: embedding_dimensions sizes the collections the      *)
(* process creates, the embedding model decides the size of the vectors it *)
(* produces.  A collection keeps the size it was created with; the index   *)
(* answers a query or an upsert whose vector has another size with an HTTP *)
(* error.  call.op = "started" is a running process between two requests.  *)

Dimensions == {384, 768}

(* create_collection in a process with the given embedding_dimensions *)
create_collection_sized(collection_name, with_sparse, size) ==
    IF collection_name \in DOMAIN collections THEN collections
    ELSE MapPut(collections, collection_name,
                [sparse |-> with_sparse, points |-> EmptyMap, size |-> size])

(* the collection exists and was created for vectors of another size than  *)
(* the model's                                                             *)
DimensionMismatch(collection_name, model_dimensions) ==
    /\ Exists(collection_name)
    /\ collections[collection_name].size # model_dimensions

(* lifespan: init_db(); the index and the embedding model are not looked   *)
(* at, the model is loaded on first use                                    *)
Startup(embedding_dimensions, model_dimensions) ==
    /\ call.op = "idle"
    /\ call' = [op |-> "started",
                settings |-> [embedding_dimensions |-> embedding_dimensions,
                              model_dimensions |-> model_dimensions],
                at_startup |-> [n \in DOMAIN collections |-> collections[n].size],
                ret |-> [exc |-> "none"]]
    /\ UNCHANGED <<collections, embedding_cache, sparse_embedding_cache, pc, hit, out>>

StartedCreateCollection(name, with_sparse) ==
    /\ call.op = "started"
    /\ collections' = create_collection_sized(name, with_sparse,
                                              call.settings.embedding_dimensions)
    /\ UNCHANGED <<embedding_cache, sparse_embedding_cache, call, pc, hit, out>>

(* ingestion upserts one chunk; the index takes it when the size fits *)
StartedUpsertVectors(name, id, text) ==
    /\ call.op = "started"
    /\ name \in DOMAIN collections
    /\ ~DimensionMismatch(name, call.settings.model_dimensions)
    /\ collections' =
          upsert_vectors(name, <<IngestedPoint(id, text, collections[name].sparse)>>)
    /\ UNCHANGED <<embedding_cache, sparse_embedding_cache, call, pc, hit, out>>

(* how the index answers the query of a process whose model produces       *)
(* vectors of the given size                                               *)
QueryOutcomes(name, model_dimensions) ==
    IF DimensionMismatch(name, model_dimensions) THEN {"http_error"}
    ELSE {"ok", "conn_error"}

StartedRetrieve(name, limit, min_score, rerank, hybrid, env) ==
    /\ call.op = "started"
    /\ LET r == retrieve(QueryText, name, limit, min_score, rerank, hybrid, FALSE, env)
       IN  /\ call' = [op |-> "retrieve",
                       args |-> [query |-> QueryText, collection_name |-> name,
                                 limit |-> limit, min_score |-> min_score,
                                 rerank |-> rerank, hybrid |-> hybrid,
                                 return_latency |-> FALSE],
                       settings |-> call.settings, at_startup |-> call.at_startup,
                       env |-> env, ret |-> r]
           /\ embedding_cache' = r.dense_cache
           /\ sparse_embedding_cache' = r.sparse_cache
    /\ UNCHANGED <<collections, pc, hit, out>>

StartedRetrieveCall ==
    /\ call.op = "started"
    /\ \E name \in CollectionNames, limit \in Limits, min_score \in MinScores :
       \E rerank \in BOOLEAN, hybrid \in BOOLEAN :
       \E query \in QueryOutcomes(name, call.settings.model_dimensions) :
            StartedRetrieve(name, limit, min_score, rerank, hybrid,
                            [DefaultEnv EXCEPT !.query = query])

NextStartup ==
    \/ \E embedding_dimensions \in Dimensions, model_dimensions \in Dimensions :
          Startup(embedding_dimensions, model_dimensions)
    \/ \E name \in CollectionNames, with_sparse \in BOOLEAN :
          StartedCreateCollection(name, with_sparse)
    \/ \E name \in CollectionNames, id \in PointIds :
          \E text \in ChunkVersions(id) : StartedUpsertVectors(name, id, text)
    \/ \E name \in CollectionNames : DeleteCollection(name)
    \/ StartedRetrieveCall
    \/ Return

SpecStartup == Init /\ [][NextStartup]_vars

----------------------------------------------------------------------------
(* The latency breakdown of retrieve.  time.perf_counter() is a monotonic  *)
(* clock: t is the sequence of the values the call reads, in the order it  *)
(* reads them, each at least the one before.  A stage timing is the        *)
(* difference of two readings times 1000.                                  *)

MaxReads == 10        \* readings of the longest path: hybrid and reranked

Ticks == {0, 1}       \* by how much the clock advances between two readings

RECURSIVE ClockAt(_, _)
ClockAt(ticks, n) == IF n <= 1 THEN 0 ELSE ClockAt(ticks, n - 1) + ticks[n - 1]

(* the readings of a clock that advances by ticks *)
ReadingsOf(ticks) == [n \in 1..MaxReads |-> ClockAt(ticks, n)]

Ms(start, end) == (end - start) * 1000

(* variant: total_start is read after the embedding stage *)
LatencyBreakdownLateStart(t, hybrid, missing, reranked) ==
    LET k == IF hybrid THEN 5 ELSE 3
        embedding_t == [embedding_ms |-> Ms(t[2], t[3])]
        sparse_t == IF hybrid THEN [sparse_embedding_ms |-> Ms(t[4], t[5])] ELSE EmptyMap
        search_t == [search_ms |-> Ms(t[k + 1], t[k + 2])]
        rerank_t == IF ~missing /\ reranked THEN [rerank_ms |-> Ms(t[k + 3], t[k + 4])]
                  ELSE EmptyMap
        total_t == [total_ms |-> Ms(t[3], IF ~missing /\ reranked THEN t[k + 5] ELSE t[k + 3])]
    IN  embedding_t @@ sparse_t @@ search_t @@ rerank_t @@ total_t

(* the latency map of a retrieve call that returns: total_start is t[1],   *)
(* embed_start t[2], the end of the embedding t[3]; then sparse_start and  *)
(* its end for a hybrid call; then search_start and the end of the search  *)
(* (in the except clause or after it); then rerank_start and its end when  *)
(* rerank_chunks was called; the last reading is the one for total_ms.     *)
LatencyBreakdown(t, hybrid, missing, reranked) ==
    LET k == IF hybrid THEN 5 ELSE 3
        embedding_t == [embedding_ms |-> Ms(t[2], t[3])]
        sparse_t == IF hybrid THEN [sparse_embedding_ms |-> Ms(t[4], t[5])] ELSE EmptyMap
        search_t == [search_ms |-> Ms(t[k + 1], t[k + 2])]
        rerank_t == IF ~missing /\ reranked THEN [rerank_ms |-> Ms(t[k + 3], t[k + 4])]
                  ELSE EmptyMap
        total_t == [total_ms |-> Ms(t[1], IF ~missing /\ reranked THEN t[k + 5] ELSE t[k + 3])]
    IN  embedding_t @@ sparse_t @@ search_t @@ rerank_t @@ total_t

(* the search raised UnexpectedResponse: retrieve returns in the except    *)
(* clause                                                                  *)
ReturnsInExcept(name, hybrid, env) == QueryFault(name, env) = "UnexpectedResponse"

(* if rerank and chunks: rerank_chunks is called *)
RerankInvoked(r, min_score, rerank) ==
    rerank /\ FilterByMinScore(r.results, min_score) # <<>>

(* a retrieve call with return_latency that gave r, timed by the clock     *)
TimedRetrieve(name, limit, min_score, rerank, hybrid, env, r, ticks) ==
    /\ call' = [op |-> "retrieve",
                args |-> [query |-> QueryText, collection_name |-> name,
                          limit |-> limit, min_score |-> min_score,
                          rerank |-> rerank, hybrid |-> hybrid,
                          return_latency |-> TRUE],
                env |-> env, ret |-> r,
                timings |-> IF r.exc # "none" THEN EmptyMap
                            ELSE LatencyBreakdown(ReadingsOf(ticks), hybrid,
                                                  ReturnsInExcept(name, hybrid, env),
                                                  RerankInvoked(r, min_score, rerank))]
    /\ embedding_cache' = r.dense_cache
    /\ sparse_embedding_cache' = r.sparse_cache
    /\ UNCHANGED <<collections, pc, hit, out>>

TimedRetrieveCall ==
    /\ call.op = "idle"
    /\ \E name \in CollectionNames, min_score \in MinScores :
       \E rerank \in BOOLEAN, hybrid \in BOOLEAN :
       \E query \in {"ok", "http_error", "conn_error"} :
       \E ticks \in [1..(MaxReads - 1) -> Ticks] :
          TimedRetrieve(name, MaxLimit, min_score, rerank, hybrid,
                        [DefaultEnv EXCEPT !.query = query],
                        retrieve(QueryText, name, MaxLimit, min_score, rerank, hybrid,
                                 TRUE, [DefaultEnv EXCEPT !.query = query]),
                        ticks)

NextLatency ==
    \/ \E name \in CollectionNames, with_sparse \in BOOLEAN :
          CreateCollection(name, with_sparse)
    \/ \E name \in CollectionNames : DeleteCollection(name)
    \/ \E name \in CollectionNames, id \in PointIds :
          \E text \in ChunkVersions(id) : UpsertVectors(name, id, text)
    \/ TimedRetrieveCall
    \/ Return

SpecLatency == Init /\ [][NextLatency]_vars

----------------------------------------------------------------------------
(* get_document_chunks, the listing of a document's chunks.  Point ids are *)
(* uuids given at ingestion: the order of the ids says nothing about the   *)
(* positions of the chunks.                                                *)

Positions == PointIds

(* the point ingestion stores for the chunk at a position of its document  *)
PositionedPoint(id, position) ==
    PointDict(id, DenseModel("shipping rates"), {}, SparseModel("shipping rates"),
              [document_id |-> DocOf(id), document_name |-> DocOf(id) \o ".pdf",
               chunk_text |-> "shipping rates", chunk_position |-> position])

(* sorted(chunks, key=lambda x: x["position"]): stable, ascending *)
RECURSIVE InsertByPosition(_, _)
InsertByPosition(chunk, sorted) ==
    IF sorted = <<>> THEN <<chunk>>
    ELSE IF chunk.position < Head(sorted).position THEN <<chunk>> \o sorted
    ELSE <<Head(sorted)>> \o InsertByPosition(chunk, Tail(sorted))

RECURSIVE SortedByPosition(_)
SortedByPosition(chunks) ==
    IF chunks = <<>> THEN <<>>
    ELSE InsertByPosition(chunks[Len(chunks)],
                          SortedByPosition(SubSeq(chunks, 1, Len(chunks) - 1)))

(* the dict built from one scrolled point *)
ChunkDict(name, id) ==
    [id |-> id,
     text |-> collections[name].points[id].payload.chunk_text,
     position |-> collections[name].points[id].payload.chunk_position,
     document_name |-> collections[name].points[id].payload.document_name]

(* client.scroll(scroll_filter=<document_id>, limit): the first page of    *)
(* the matching points, in id order                                        *)
ScrollDocument(name, document_id, limit) ==
    Take(Ascending(MatchingIds(name, document_id)), limit)

get_document_chunks(collection_name, document_id, limit) ==
    IF ~Exists(collection_name) THEN Raise("UnexpectedResponse")
    ELSE Ok(SortedByPosition(
               [n \in DOMAIN ScrollDocument(collection_name, document_id, limit) |->
                   ChunkDict(collection_name,
                             ScrollDocument(collection_name, document_id, limit)[n])]))

(* ingestion stores a chunk at a position its document has free *)
IngestChunk(name, id, position) ==
    /\ call.op = "idle"
    /\ name \in DOMAIN collections
    /\ \A other \in MatchingIds(name, DocOf(id)) \ {id} :
          collections[name].points[other].payload.chunk_position # position
    /\ collections' = upsert_vectors(name, <<PositionedPoint(id, position)>>)
    /\ UNCHANGED <<embedding_cache, sparse_embedding_cache, call, pc, hit, out>>

GetDocumentChunksCall(name, document_id, limit) ==
    /\ call.op = "idle"
    /\ call' = [op |-> "get_document_chunks",
                args |-> [collection_name |-> name, document_id |-> document_id,
                          limit |-> limit],
                ret |-> get_document_chunks(name, document_id, limit)]
    /\ UNCHANGED <<collections, embedding_cache, sparse_embedding_cache, pc, hit, out>>

NextChunks ==
    \/ \E name \in CollectionNames, with_sparse \in BOOLEAN :
          CreateCollection(name, with_sparse)
    \/ \E name \in CollectionNames : DeleteCollection(name)
    \/ \E name \in CollectionNames, id \in PointIds, position \in Positions :
          IngestChunk(name, id, position)
    \/ \E name \in CollectionNames, document_id \in DocumentIds, limit \in Limits :
          GetDocumentChunksCall(name, document_id, limit)
    \/ Return

SpecChunks == Init /\ [][NextChunks]_vars

----------------------------------------------------------------------------
(* Writers beside a running migration.  Ingestion (upsert_vectors) and     *)
(* document deletion (delete_by_document_id) are requests of other         *)
(* processes: nothing keeps them from reaching the index between two       *)
(* requests of migrate_collection.  call.writes holds, per point id, the   *)
(* last write the index accepted while the run was going on.               *)

(* delete_by_document_id: the index without the document's points *)
delete_by_document_id(collection_name, document_id) ==
    IF ~Exists(collection_name) THEN collections
    ELSE [collections EXCEPT ![collection_name].points =
             [i \in DOMAIN @ \ MatchingIds(collection_name, document_id) |-> @[i]]]

Running == InMigrate /\ call.pc # "done"

Writes == IF "writes" \in DOMAIN call THEN call.writes ELSE EmptyMap

(* writes the exploration lets other processes make during one run *)
MaxWrites == 2

Written == IF "written" \in DOMAIN call THEN call.written ELSE 0

(* ingestion upserts one chunk while the migration runs *)
ConcurrentUpsert(name, id, text) ==
    /\ Running
    /\ Written < MaxWrites
    /\ name = call.args.collection_name
    /\ Exists(name)
    /\ collections' =
          upsert_vectors(name, <<IngestedPoint(id, text, collections[name].sparse)>>)
    /\ call' = [writes |-> MapPut(Writes, id, [op |-> "upsert", text |-> text]),
                written |-> Written + 1] @@ call
    /\ UNCHANGED <<embedding_cache, sparse_embedding_cache, pc, hit, out>>

(* a document is deleted while the migration runs *)
ConcurrentDelete(name, document_id) ==
    /\ Running
    /\ Written < MaxWrites
    /\ name = call.args.collection_name
    /\ Exists(name)
    /\ MatchingIds(name, document_id) # {}
    /\ collections' = delete_by_document_id(name, document_id)
    /\ call' = [writes |-> [i \in DOMAIN Writes \cup MatchingIds(name, document_id) |->
                               IF i \in MatchingIds(name, document_id)
                               THEN [op |-> "delete", text |-> ""]
                               ELSE Writes[i]],
                written |-> Written + 1] @@ call
    /\ UNCHANGED <<embedding_cache, sparse_embedding_cache, pc, hit, out>>

NextConcurrent ==
    \/ \E name \in CollectionNames : CreateCollection(name, FALSE)
    \/ \E name \in CollectionNames, id \in PointIds :
          \E text \in ChunkVersions(id) : UpsertVectors(name, id, text)
    \/ \E name \in CollectionNames : MigrateCollectionCall(name, MaxBatch)
    \/ CheckExists
    \/ CheckHasSparse
    \/ CheckStale
    \/ DeleteStale
    \/ CreateTemp
    \/ GetInfo
    \/ Stage
    \/ DeleteOriginal
    \/ CreateFinal
    \/ Copy
    \/ DeleteTemp
    \/ CleanupExists
    \/ CleanupDelete
    \/ \E name \in CollectionNames, id \in PointIds :
          \E text \in ChunkVersions(id) : ConcurrentUpsert(name, id, text)
    \/ \E name \in CollectionNames, document_id \in DocumentIds :
          ConcurrentDelete(name, document_id)
    \/ Return

SpecConcurrent == Init /\ [][NextConcurrent]_vars

----------------------------------------------------------------------------
(* Concurrent callers of create_collection.  The function makes two         *)
(* requests to the index, get_collections and then create_collection, and   *)
(* holds no lock between them; the route that calls it runs once per        *)
(* request, so several calls can be in flight.  The index refuses to create *)
(* a collection whose name is taken: the client raises UnexpectedResponse.  *)

Creating(t) == pc[t].at \in {"get_collections", "create_collection", "returned"}

(* the call begins; absent records whether the name was free at that time *)
EnterCreateCollection(t, name, with_sparse) ==
    /\ pc[t] = IdleThread
    /\ pc' = [pc EXCEPT ![t] = [at |-> "get_collections", name |-> name,
                                with_sparse |-> with_sparse, absent |-> ~Exists(name)]]
    /\ out' = [out EXCEPT ![t] = NoResult]
    /\ UNCHANGED <<collections, embedding_cache, sparse_embedding_cache, call, hit>>

(* client.get_collections() and the early return when the name is listed *)
ListCollections(t) ==
    /\ pc[t].at = "get_collections"
    /\ IF Exists(pc[t].name)
       THEN /\ pc' = [pc EXCEPT ![t].at = "returned"]
            /\ out' = [out EXCEPT ![t] = Ok(None)]
       ELSE /\ pc' = [pc EXCEPT ![t].at = "create_collection"]
            /\ out' = out
    /\ UNCHANGED <<collections, embedding_cache, sparse_embedding_cache, call, hit>>

(* client.create_collection(...): a conflict when the name is taken by now *)
ClientCreateCollection(t) ==
    /\ pc[t].at = "create_collection"
    /\ IF Exists(pc[t].name)
       THEN /\ collections' = collections
            /\ out' = [out EXCEPT ![t] = Raise("UnexpectedResponse")]
       ELSE /\ collections' = create_collection_anew(pc[t].name, pc[t].with_sparse)
            /\ out' = [out EXCEPT ![t] = Ok(None)]
    /\ pc' = [pc EXCEPT ![t].at = "returned"]
    /\ UNCHANGED <<embedding_cache, sparse_embedding_cache, call, hit>>

(* the caller has its answer *)
LeaveCreateCollection(t) ==
    /\ pc[t].at = "returned"
    /\ pc' = [pc EXCEPT ![t] = IdleThread]
    /\ out' = [out EXCEPT ![t] = NoResult]
    /\ UNCHANGED <<collections, embedding_cache, sparse_embedding_cache, call, hit>>

(* the collection is dropped while no create call is in flight *)
DropCollection(name) ==
    /\ \A t \in Threads : pc[t] = IdleThread
    /\ DeleteCollection(name)

NextCreate ==
    \/ \E t \in Threads, name \in CollectionNames, with_sparse \in BOOLEAN :
          EnterCreateCollection(t, name, with_sparse)
    \/ \E t \in Threads : ListCollections(t)
    \/ \E t \in Threads : ClientCreateCollection(t)
    \/ \E t \in Threads : LeaveCreateCollection(t)
    \/ \E name \in CollectionNames, id \in PointIds :
          \E text \in ChunkVersions(id) : UpsertVectors(name, id, text)
    \/ \E name \in CollectionNames :
          DropCollection(name)

SpecCreate == Init /\ [][NextCreate]_vars

----------------------------------------------------------------------------
(* Properties.  A retrieve, hybrid_search or similarity_search call is      *)
(* observed in the state where call holds its arguments, what its          *)
(* dependencies did (env) and what it gave back (ret); the index is        *)
(* unchanged until the caller has taken the answer.                        *)

InRetrieve == call.op = "retrieve"
InHybridSearch == call.op = "hybrid_search"
InSimilaritySearch == call.op = "similarity_search"

NonIncreasing(chunks) ==
    \A n \in 1..(Len(chunks) - 1) : chunks[n].score >= chunks[n + 1].score

(* what the index ranks for the arguments of the retrieve call when asked  *)
(* for n candidates                                                        *)
IndexCandidates(n) ==
    RunSearch(call.args.collection_name, DenseModel(call.args.query),
              IF call.args.hybrid THEN SparseModel(call.args.query) ELSE NoSparse,
              n, call.args.hybrid, call.env).value

(* C1: retrieve against a collection that is missing from the index, once  *)
(* the query is embedded and the index answers, raises nothing and returns *)
(* the empty chunk list - as a tuple with a latency map holding search_ms  *)
(* and total_ms when return_latency, as a bare list otherwise - for every  *)
(* rerank, hybrid and return_latency.                                      *)
C1_MissingCollectionReturnsEmpty ==
    (/\ InRetrieve
     /\ ~Exists(call.args.collection_name)
     /\ call.env.emb = "ok" /\ call.env.semb = "ok"
     /\ call.env.query # "conn_error")
    => /\ call.ret.exc = "none"
       /\ call.ret.chunks = <<>>
       /\ call.ret.shape = IF call.args.return_latency THEN "tuple" ELSE "list"
       /\ call.args.return_latency
            => {"search_ms", "total_ms"} \subseteq call.ret.latency

C1_Witness ==
    /\ InRetrieve
    /\ ~Exists(call.args.collection_name)
    /\ call.args.rerank /\ call.args.hybrid /\ call.args.return_latency
    /\ call.env.info = "transient"
    /\ call.ret.exc = "none" /\ call.ret.chunks = <<>> /\ call.ret.shape = "tuple"

C3_ChunksNonIncreasing == InRetrieve => NonIncreasing(call.ret.chunks)

C3_Witness ==
    /\ InRetrieve
    /\ call.args.rerank /\ call.args.hybrid /\ call.env.reranker = "ok"
    /\ Len(call.ret.chunks) = 2
    /\ call.ret.chunks[1].score > call.ret.chunks[2].score
    /\ call.ret.chunks[1].chunk_position # call.ret.results[1].id

(* C4: with rerank off retrieve returns the candidates the index ranks     *)
(* when asked for limit, those scoring at least min_score, in index order: *)
(* never more than limit, none below min_score, none that qualifies left   *)
(* out.                                                                    *)
C4_RerankOffExactPrefix ==
    (InRetrieve /\ ~call.args.rerank /\ call.ret.exc = "none")
    => LET idx == IndexCandidates(call.args.limit)
       IN  /\ Len(call.ret.chunks) <= call.args.limit
           /\ \A n \in DOMAIN call.ret.chunks :
                /\ call.ret.chunks[n].score >= call.args.min_score
                /\ n \in DOMAIN idx
                /\ call.ret.chunks[n] = RetrievedChunk(idx[n])
           /\ \A n \in DOMAIN idx :
                (n <= call.args.limit /\ idx[n].score >= call.args.min_score)
                => n \in DOMAIN call.ret.chunks

(* scores [0.91, 0.85, 0.40], limit 2, min_score 0.5: the first two *)
C4_Witness ==
    /\ InRetrieve
    /\ ~call.args.rerank /\ ~call.args.hybrid
    /\ call.args.limit = 2 /\ call.args.min_score = Pct(50)
    /\ Exists(call.args.collection_name)
    /\ [i \in DOMAIN collections[call.args.collection_name].points |->
            Cosine(DenseModel(call.args.query),
                   collections[call.args.collection_name].points[i].vector)]
         = <<Pct(91), Pct(85), Pct(40)>>
    /\ Len(call.ret.chunks) = 2
    /\ call.ret.chunks[1].score = Pct(91) /\ call.ret.chunks[1].chunk_position = 1
    /\ call.ret.chunks[2].score = Pct(85) /\ call.ret.chunks[2].chunk_position = 2

(* what retrieve gives for the arguments of the call with hybrid off *)
DenseOnlyRetrieve ==
    retrieve(call.args.query, call.args.collection_name, call.args.limit,
             call.args.min_score, call.args.rerank, FALSE, call.args.return_latency,
             call.env)

(* C5: hybrid_search on a collection without sparse support returns, for   *)
(* any sparse query, limit and document filter, exactly what search        *)
(* returns for the same collection, dense vector, limit and filter; and    *)
(* retrieve with hybrid on returns there the chunks it returns with hybrid *)
(* off.                                                                    *)
C5_HybridFallsBackToSearch ==
    /\ (/\ InHybridSearch
        /\ Exists(call.args.collection_name)
        /\ ~collections[call.args.collection_name].sparse)
       => call.ret = search(call.args.collection_name, call.args.query_dense,
                            call.args.limit, call.args.document_id, call.env)
    /\ (/\ InRetrieve
        /\ call.args.hybrid
        /\ Exists(call.args.collection_name)
        /\ ~collections[call.args.collection_name].sparse
        /\ call.env.emb = "ok" /\ call.env.semb = "ok")
       => LET dense == DenseOnlyRetrieve
          IN  /\ call.ret.exc = dense.exc
              /\ call.ret.chunks = dense.chunks
              /\ call.ret.shape = dense.shape

C5_Witness ==
    /\ InHybridSearch
    /\ Exists(call.args.collection_name)
    /\ ~collections[call.args.collection_name].sparse
    /\ call.args.query_sparse # NoSparse
    /\ call.args.document_id = "doc-a"
    /\ call.args.limit = 2
    /\ DOMAIN collections[call.args.collection_name].points = PointIds
    /\ call.ret.exc = "none"
    /\ Len(call.ret.value) = 2

(* the fused branch of hybrid_search was taken and answered *)
FusedAnswer ==
    /\ InHybridSearch
    /\ call.args.query_sparse # NoSparse
    /\ collection_has_sparse_vectors(call.args.collection_name, call.env)
    /\ call.ret.exc = "none"

(* the dense list the fusion of the call works on *)
DenseList ==
    Take(DenseRanking(call.args.collection_name, call.args.query_dense,
                      call.args.document_id, Identity(MaxPoints)),
         call.args.limit * PrefetchFactor)

(* C6 as stated: the fused results come in descending fused score, at most *)
(* limit of them, and two results of equal fused score always come in one  *)
(* pinned order - the order of the dense list, as in [A,B,D,C].            *)
C6_TiesInPinnedOrder ==
    FusedAnswer =>
        /\ Len(call.ret.value) <= call.args.limit
        /\ NonIncreasing(call.ret.value)
        /\ \A n \in 1..(Len(call.ret.value) - 1) :
              (/\ call.ret.value[n].score = call.ret.value[n + 1].score
               /\ call.ret.value[n].id \in Range(DenseList)
               /\ call.ret.value[n + 1].id \in Range(DenseList))
              => IndexOf(DenseList, call.ret.value[n].id)
                    < IndexOf(DenseList, call.ret.value[n + 1].id)

(* C7: the reranker returns at most top_k items, each one of its           *)
(* candidates, none twice - when the cross-encoder scores, when it cannot  *)
(* be imported or loaded, and when sorting its scores throws; and retrieve *)
(* with rerank on returns at most limit chunks, each a candidate, none     *)
(* twice.                                                                  *)
C7_RerankBoundedSubset ==
    /\ (InSimilaritySearch /\ call.args.rerank)
       => /\ Len(call.ret.results) <= call.args.top_k
          /\ Range(call.ret.results) \subseteq Range(call.ret.initial_results)
          /\ NoDup(call.ret.results)
    /\ (InRetrieve /\ call.args.rerank)
       => /\ Len(call.ret.chunks) <= call.args.limit
          /\ \A n \in DOMAIN call.ret.chunks :
                \E m \in DOMAIN call.ret.results :
                    call.ret.results[m].id = call.ret.chunks[n].chunk_position
          /\ \A n, m \in DOMAIN call.ret.chunks :
                n # m => call.ret.chunks[n].chunk_position # call.ret.chunks[m].chunk_position

(* the cross-encoder scores two candidates alike, the sort throws, and the *)
(* fallback has to cut three candidates down to top_k                      *)
C7_Witness ==
    /\ InSimilaritySearch
    /\ call.args.rerank /\ call.env.reranker = "ok"
    /\ Len(call.ret.initial_results) = 3
    /\ SortedZipRaises([i \in DOMAIN call.ret.initial_results |->
          CrossEncoderScore(call.args.query,
                            call.ret.initial_results[i].data.page_content, call.env)])
    /\ Len(call.ret.results) = call.args.top_k

(* C8: when the cross-encoder cannot be imported or loaded the reranker    *)
(* returns the first top_k candidates, in input order and unchanged, and   *)
(* the search around it returns; retrieve likewise returns the first limit *)
(* filtered candidates with their index scores.                            *)
C8_UnloadableKeepsFirstTopK ==
    /\ (/\ InSimilaritySearch
        /\ call.args.rerank
        /\ call.env.reranker \in {"import_error", "error"})
       => /\ Len(call.ret.results)
                = (IF Len(call.ret.initial_results) < call.args.top_k
                   THEN Len(call.ret.initial_results) ELSE call.args.top_k)
          /\ \A n \in DOMAIN call.ret.results :
                call.ret.results[n] = call.ret.initial_results[n]
    /\ (/\ InRetrieve
        /\ call.args.rerank
        /\ call.env.reranker = "unavailable")
       => /\ call.ret.exc = "none"
          /\ Len(call.ret.chunks) <= call.args.limit
          /\ \A n \in DOMAIN call.ret.chunks :
                /\ call.ret.chunks[n].chunk_position = call.ret.results[n].id
                /\ call.ret.chunks[n].score = call.ret.results[n].score
                /\ call.ret.chunks[n].chunk_text = call.ret.results[n].payload.chunk_text
          /\ \A n \in DOMAIN call.ret.results :
                (n <= call.args.limit /\ call.ret.results[n].score >= call.args.min_score)
                => n \in DOMAIN call.ret.chunks

C8_Witness ==
    /\ InSimilaritySearch
    /\ call.args.rerank /\ call.env.reranker = "import_error"
    /\ call.args.top_k = 2
    /\ Len(call.ret.initial_results) = 3
    /\ call.ret.results = <<call.ret.initial_results[1], call.ret.initial_results[2]>>

(* an embedding call or an index call of the retrieve failed, and not      *)
(* because the collection is missing                                       *)
CallFailed ==
    /\ InRetrieve
    /\ \/ call.env.emb = "unavailable"
       \/ call.env.semb = "unavailable"
       \/ /\ Exists(call.args.collection_name)
          /\ \/ call.args.hybrid /\ call.env.info = "transient"
             \/ call.env.query # "ok"

(* C9 as stated: a retrieve one of whose embedding or index calls failed   *)
(* for another reason than a missing collection raises an error: it        *)
(* returns no empty, partial or dense-only result.                         *)
C9_FailureSurfacesAsError == CallFailed => call.ret.exc # "none"

(* C10 as stated: under any interleaving of concurrent get_embedding and   *)
(* get_sparse_embedding calls with TTL expiry and eviction, a call that    *)
(* ends has returned the vector the model produces for its text, and has   *)
(* not failed because of the cache.                                        *)
C10_NeverFailsOnCache ==
    \A t \in Threads :
        pc[t].at = "done"
        => /\ out[t].exc = "none"
           /\ out[t].value = ModelOf(pc[t].fn, pc[t].text)


InGetEmbedding == call.op = "get_embedding"

(* the model the call needs is unavailable *)
ModelDown ==
    /\ InGetEmbedding
    /\ IF call.args.fn = "dense" THEN call.env.emb = "unavailable"
       ELSE call.env.semb = "unavailable"

(* every entry of a cache holds the vector the model produces for its key *)
CachesHoldModelVectors ==
    /\ \A i \in DOMAIN embedding_cache :
          embedding_cache[i].value = DenseModel(embedding_cache[i].key)
    /\ \A i \in DOMAIN sparse_embedding_cache :
          sparse_embedding_cache[i].value = SparseModel(sparse_embedding_cache[i].key)

(* C11: get_embedding and get_sparse_embedding, when the embedding model   *)
(* is unavailable, raise an error, return no vector and leave both caches  *)
(* as they were; no cache ever holds anything but the model's vector for   *)
(* its key, and a call that returns gives the model's vector for its text, *)
(* so a later call for the text gives the correct vector.                  *)
C11_ModelDownRaisesAndKeepsCaches ==
    /\ ModelDown
       => /\ call.ret.exc = "ModelUnavailable"
          /\ call.ret.value = <<>>
          /\ embedding_cache = call.before.dense
          /\ sparse_embedding_cache = call.before.sparse
    /\ CachesHoldModelVectors
    /\ (InGetEmbedding /\ call.ret.exc = "none")
       => call.ret.value = ModelOf(call.args.fn, call.args.text)

C11_Witness ==
    /\ ModelDown
    /\ call.args.fn = "sparse"
    /\ call.ret.exc = "ModelUnavailable"
    /\ embedding_cache # <<>>
    /\ sparse_embedding_cache = <<>>

InUpsert == call.op = "upsert_vectors"

(* the last dict of a request that names id *)
LastOf(points, id) ==
    points[CHOOSE n \in DOMAIN points :
              /\ points[n].id = id
              /\ \A m \in DOMAIN points : m > n => points[m].id # id]

BothSparseKeys(point) ==
    "sparse_indices" \in point.keys /\ "sparse_values" \in point.keys

(* C12: after an upsert_vectors call the collection holds, for each id of  *)
(* the request, one point with the dense vector and the payload of the     *)
(* last dict for that id, and a sparse vector exactly when that dict has   *)
(* both sparse_indices and sparse_values (then that vector); the points of *)
(* other ids, the collection's configuration and the other collections are *)
(* as before.  A request the index refuses changes nothing.                *)
C12_UpsertReplacesById ==
    InUpsert
    => LET name == call.args.collection_name
           points == call.args.points
           ids == {points[n].id : n \in DOMAIN points}
       IN  IF call.ret.exc # "none" THEN collections = call.before
           ELSE /\ DOMAIN collections = DOMAIN call.before
                /\ \A other \in DOMAIN collections \ {name} :
                      collections[other] = call.before[other]
                /\ collections[name].sparse = call.before[name].sparse
                /\ DOMAIN collections[name].points
                      = DOMAIN call.before[name].points \cup ids
                /\ \A id \in DOMAIN collections[name].points :
                      LET now == collections[name].points[id]
                      IN  IF id \in ids
                          THEN /\ now.vector = LastOf(points, id).vector
                               /\ now.payload = LastOf(points, id).payload
                               /\ now.sparse =
                                    IF BothSparseKeys(LastOf(points, id))
                                    THEN <<LastOf(points, id).sparse_indices,
                                           LastOf(points, id).sparse_values>>
                                    ELSE NoSparse
                          ELSE now = call.before[name].points[id]

(* an upsert of two dicts for a stored id, the last without sparse_values, *)
(* over a point that had a sparse vector                                   *)
C12_Witness ==
    /\ InUpsert
    /\ call.ret.exc = "none"
    /\ Len(call.args.points) = 2
    /\ call.args.points[2].keys = {"sparse_indices"}
    /\ call.args.points[1].vector # call.args.points[2].vector
    /\ 1 \in DOMAIN call.before[call.args.collection_name].points
    /\ call.before[call.args.collection_name].points[1].sparse # NoSparse
    /\ collections[call.args.collection_name].points[1].sparse = NoSparse

InCreate == call.op = "create_collection"

(* C13: create_collection for a name that exists, with either value of     *)
(* with_sparse, raises nothing and leaves every collection, its            *)
(* configuration and its points as they were.                              *)
C13_CreateExistingIsNoOp ==
    (InCreate /\ call.args.collection_name \in DOMAIN call.before)
    => /\ call.ret.exc = "none"
       /\ collections = call.before

(* create_collection with the other sparse setting on a collection that    *)
(* holds points                                                            *)
C13_Witness ==
    /\ InCreate
    /\ call.args.collection_name \in DOMAIN call.before
    /\ call.before[call.args.collection_name].sparse # call.args.with_sparse
    /\ call.before[call.args.collection_name].points # EmptyMap

MigratedName == call.args.collection_name

(* the run has ended: it returned True or False, or raised *)
MigrateEnded == At("done")

(* C14 as stated: a run of migrate_collection on a collection that has     *)
(* sparse support creates, deletes and writes nothing at any moment, and   *)
(* when it returns, returns True.                                          *)
C14_AlreadySparseIsNoOp ==
    (/\ InMigrate
     /\ MigratedName \in DOMAIN call.before
     /\ call.before[MigratedName].sparse)
    => /\ collections = call.before
       /\ (MigrateEnded /\ call.ret # "raised") => call.ret = "True"

(* C15 as stated: when a run that went past the precondition check ends,   *)
(* the temporary collection does not exist, and a run in which a request   *)
(* failed has returned False.                                              *)
C15_TempGoneWhenRunEnds ==
    (MigrateEnded /\ call.past)
    => /\ TempName(MigratedName) \notin DOMAIN collections
       /\ call.failed # "none" => call.ret = "False"

(* the temporary collection holds a point for every id the original had   *)
(* when the run began, with that point's dense vector and payload          *)
TempHoldsEveryPoint ==
    /\ TempName(MigratedName) \in DOMAIN collections
    /\ DOMAIN collections[TempName(MigratedName)].points
          = DOMAIN call.before[MigratedName].points
    /\ \A id \in DOMAIN call.before[MigratedName].points :
          /\ collections[TempName(MigratedName)].points[id].vector
                = call.before[MigratedName].points[id].vector
          /\ collections[TempName(MigratedName)].points[id].payload
                = call.before[MigratedName].points[id].payload

OriginalUntouched ==
    /\ MigratedName \in DOMAIN collections
    /\ collections[MigratedName] = call.before[MigratedName]

(* C16: the request that deletes the original collection is made, and the  *)
(* original is gone or rebuilt, only when the temporary collection holds   *)
(* every point of the original; until then, and in every run in which a    *)
(* request of staging failed, however the run ends, the original           *)
(* collection and its points are as they were when the run began.          *)
C16_DeleteOnlyAfterFullStaging ==
    (InMigrate /\ call.past)
    => /\ call.pc \in {"delete_original", "create_final"} => TempHoldsEveryPoint
       /\ (call.pc \in {"stale_exists", "stale_delete", "create_temp", "get_info",
                        "stage", "delete_original"}
           \/ call.failed \in {"stale", "staging"})
          => OriginalUntouched

(* a run whose second batch failed: the temporary collection holds a part  *)
(* of the points, the original all of them                                 *)
C16_Witness ==
    /\ At("cleanup_exists")
    /\ call.failed = "staging"
    /\ TempName(MigratedName) \in DOMAIN collections
    /\ collections[TempName(MigratedName)].points # EmptyMap
    /\ ~TempHoldsEveryPoint
    /\ OriginalUntouched

(* C17: when migrate_collection returns True for a collection that had no  *)
(* sparse support, the collection exists with sparse support and holds     *)
(* the ids it held before, each with the dense vector and the payload it   *)
(* had; a point with chunk text carries the sparse model's vector for that *)
(* text, a point without chunk text carries no sparse vector.              *)
C17_MigratedKeepsPoints ==
    (/\ MigrateEnded
     /\ call.ret = "True"
     /\ ~call.before[MigratedName].sparse)
    => /\ MigratedName \in DOMAIN collections
       /\ collections[MigratedName].sparse
       /\ DOMAIN collections[MigratedName].points = DOMAIN call.before[MigratedName].points
       /\ \A id \in DOMAIN call.before[MigratedName].points :
             LET was == call.before[MigratedName].points[id]
                 now == collections[MigratedName].points[id]
             IN  /\ now.vector = was.vector
                 /\ now.payload = was.payload
                 /\ now.sparse = IF was.payload.chunk_text # ""
                                 THEN SparseModel(was.payload.chunk_text)
                                 ELSE NoSparse

(* three points, one of them without text, migrated in batches of two *)
C17_Witness ==
    /\ MigrateEnded
    /\ call.ret = "True"
    /\ ~call.before[MigratedName].sparse
    /\ call.args.batch_size = 2
    /\ DOMAIN call.before[MigratedName].points = {1, 2, 3}
    /\ call.before[MigratedName].points[1].payload.chunk_text = ""
    /\ collections[MigratedName].points[1].sparse = NoSparse
    /\ collections[MigratedName].points[2].sparse # NoSparse

InRetrieveFormatted == call.op = "retrieve_formatted"

(* C18: a retrieve_formatted call that returns gives the sentence "No      *)
(* relevant information found in the knowledge base." when retrieve gave   *)
(* it no chunks, and only then: with one chunk or more the output is       *)
(* another string.                                                         *)
C18_SentinelIffNoChunks ==
    (InRetrieveFormatted /\ call.ret.exc = "none")
    => (call.ret.output = "No relevant information found in the knowledge base."
        <=> call.ret.chunks = <<>>)

(* no chunks because every candidate of a populated collection scored      *)
(* below the minimum                                                       *)
C18_Witness ==
    /\ InRetrieveFormatted
    /\ call.ret.exc = "none"
    /\ call.ret.chunks = <<>>
    /\ call.ret.output = NoInformation
    /\ Exists(call.args.collection_name)
    /\ collections[call.args.collection_name].points # EmptyMap
    /\ call.settings.retrieval_min_score > 0

(* the text of the chunks from the i-th on, the i-th first, written out *)
RECURSIVE Rendered(_, _)
Rendered(chunks, i) ==
    IF i > Len(chunks) THEN ""
    ELSE (IF i > 1 THEN "\n\n---\n\n" ELSE "")
         \o "[Source " \o ToString(i) \o ": " \o chunks[i].document_name \o "]"
         \o "\n" \o chunks[i].chunk_text
         \o Rendered(chunks, i + 1)

(* C19: with one chunk or more, the output of retrieve_formatted is the    *)
(* chunks in the order retrieve ranked them, the i-th as the line          *)
(* "[Source i: <document_name>]" and its text on the next line, with       *)
(* "\n\n---\n\n" between two chunks, nothing before the first and nothing  *)
(* after the last.                                                         *)
C19_ChunksRenderedInOrder ==
    (InRetrieveFormatted /\ call.ret.exc = "none" /\ call.ret.chunks # <<>>)
    => call.ret.output = Rendered(call.ret.chunks, 1)

(* two chunks of different texts, the reranker having put the index's      *)
(* second candidate first                                                  *)
C19_Witness ==
    /\ InRetrieveFormatted
    /\ call.ret.exc = "none"
    /\ Len(call.ret.chunks) = 2
    /\ call.ret.chunks[1].chunk_text # call.ret.chunks[2].chunk_text
    /\ call.ret.chunks[1].chunk_position > call.ret.chunks[2].chunk_position
    /\ call.ret.output =
         "[Source 1: doc-a.pdf]\nour refund policy\n\n---\n\n[Source 2: doc-a.pdf]\nrefunds take 5 days"

(* the call took the dense-only branch *)
FellBackToDense ==
    /\ InHybridSearch
    /\ \/ call.args.query_sparse = NoSparse
       \/ ~collection_has_sparse_vectors(call.args.collection_name, call.env)

(* C20 as stated: every hybrid_search call that falls back to dense-only   *)
(* search, because the collection has no sparse support or because no      *)
(* sparse query was supplied, logs a degraded-mode event, and the fallback *)
(* raises nothing to the caller when the dense search works.               *)
C20_FallbackIsLogged ==
    FellBackToDense
    => /\ call.log # <<>>
       /\ (Exists(call.args.collection_name) /\ call.env.query = "ok")
          => call.ret.exc = "none"

(* C21 as stated: retrieve against a collection that is missing, while the *)
(* index answers, returns the empty result without having computed a query *)
(* embedding: it raises nothing, whatever the state of the embedding       *)
(* model, and its latency map records no embedding stage.                  *)
C21_MissingCollectionBeforeEmbedding ==
    (/\ InRetrieve
     /\ ~Exists(call.args.collection_name)
     /\ call.env.query # "conn_error")
    => /\ call.ret.exc = "none"
       /\ call.ret.chunks = <<>>
       /\ call.ret.latency \cap {"embedding_ms", "sparse_embedding_ms"} = {}

(* the process of the call started while the collection it queries was in  *)
(* the index with the size it has now, and that size is not the size of    *)
(* the vectors the process's model produces                                *)
MismatchAtStartup ==
    /\ call.args.collection_name \in DOMAIN call.at_startup
    /\ call.at_startup[call.args.collection_name]
          = collections[call.args.collection_name].size
    /\ DimensionMismatch(call.args.collection_name, call.settings.model_dimensions)

(* C22 as stated: a collection whose size differs from the size of the     *)
(* configured model's vectors makes the process fail when it starts, so no *)
(* retrieve call of a started process meets such a collection: neither as  *)
(* an error of the call nor as an empty result.                            *)
C22_MismatchFailsAtStartup ==
    InRetrieve => ~MismatchAtStartup

StageKeys == {"embedding_ms", "sparse_embedding_ms", "search_ms", "rerank_ms"}

RECURSIVE SumOver(_, _)
SumOver(f, keys) ==
    IF keys = {} THEN 0
    ELSE LET k == CHOOSE x \in keys : TRUE
         IN  f[k] + SumOver(f, keys \ {k})

(* C23: the latency map of a retrieve call that returns one - plain,       *)
(* hybrid, reranked or for a missing collection - holds total_ms, and      *)
(* total_ms is at least the sum of the stage timings the map holds;        *)
(* sparse_embedding_ms is in the map exactly for hybrid calls, rerank_ms   *)
(* exactly when rerank_chunks was called, embedding_ms and search_ms       *)
(* always; the keys are those retrieve records.                            *)
C23_TotalAtLeastSumOfStages ==
    (InRetrieve /\ call.args.return_latency /\ call.ret.exc = "none")
    => /\ "total_ms" \in DOMAIN call.timings
       /\ call.timings["total_ms"]
             >= SumOver(call.timings, DOMAIN call.timings \cap StageKeys)
       /\ DOMAIN call.timings = call.ret.latency
       /\ {"embedding_ms", "search_ms"} \subseteq DOMAIN call.timings
       /\ "sparse_embedding_ms" \in DOMAIN call.timings <=> call.args.hybrid
       /\ "rerank_ms" \in DOMAIN call.timings
             <=> (call.args.rerank /\ call.ret.chunks # <<>>)

(* a hybrid, reranked call with all four stages timed above zero and time  *)
(* spent outside them                                                      *)
C23_Witness ==
    /\ InRetrieve
    /\ call.ret.exc = "none"
    /\ DOMAIN call.timings \cap StageKeys = StageKeys
    /\ \A k \in StageKeys : call.timings[k] > 0
    /\ call.timings["total_ms"] > SumOver(call.timings, StageKeys)

InGetDocumentChunks == call.op = "get_document_chunks"

(* all the chunks of the document, sorted ascending by position *)
DocumentChunksByPosition(name, document_id) ==
    SortedByPosition([n \in DOMAIN Ascending(MatchingIds(name, document_id)) |->
                         ChunkDict(name, Ascending(MatchingIds(name, document_id))[n])])

(* C24 as stated: a get_document_chunks call that returns gives only       *)
(* chunks of the document, and gives the first min(limit, n) of the        *)
(* document's n chunks in ascending order of chunk position.               *)
C24_FirstChunksByPosition ==
    (InGetDocumentChunks /\ call.ret.exc = "none")
    => /\ \A n \in DOMAIN call.ret.value :
             call.ret.value[n].id
                \in MatchingIds(call.args.collection_name, call.args.document_id)
       /\ call.ret.value
             = Take(DocumentChunksByPosition(call.args.collection_name,
                                             call.args.document_id),
                    call.args.limit)

(* the state of the Migrator's state machine a run is in *)
MigratorState(run) ==
    IF run.pc = "done" THEN (IF run.ret = "True" THEN "done" ELSE "failed")
    ELSE CASE PhaseOf(run.pc) \in {"precondition", "stale"} -> "not-migrated"
           [] PhaseOf(run.pc) = "staging"                   -> "staging"
           [] PhaseOf(run.pc) \in {"swapping", "cleanup"}   -> "swapping"
           [] OTHER                                         -> "failed"

MigratorRank(state) ==
    CASE state = "not-migrated" -> 0
      [] state = "staging"      -> 1
      [] state = "swapping"     -> 2
      [] OTHER                  -> 3

(* the original name holds, with sparse support, the points the run found  *)
(* and the temporary collection is gone                                    *)
MigratedAndCleaned ==
    /\ MigratedName \in DOMAIN collections
    /\ collections[MigratedName].sparse
    /\ DOMAIN collections[MigratedName].points = DOMAIN call.before[MigratedName].points
    /\ TempName(MigratedName) \notin DOMAIN collections

(* C25 as stated: a run of migrate_collection goes only forward through    *)
(* not-migrated, staging, swapping and done or failed; a run in which a    *)
(* request failed, before staging too, ends having returned False and not  *)
(* by raising; and a run is done only with the original name holding the   *)
(* points with sparse support and the temporary collection deleted.        *)
C25_MigratorStateMachine ==
    /\ [](MigrateEnded
          => /\ call.failed # "none" => call.ret = "False"
             /\ call.ret = "True" => MigratedAndCleaned)
    /\ [][(InMigrate /\ call'.op = "migrate_collection")
          => /\ MigratorRank(MigratorState(call')) >= MigratorRank(MigratorState(call))
             /\ MigratorState(call) \in {"done", "failed"}
                   => MigratorState(call') = MigratorState(call)]_vars

(* the rerank score the call's cross-encoder gives a candidate *)
RerankScoreOf(row) == CrossEncoderScore(call.args.query, row.data.page_content, call.env)

(* C26 as stated: with the cross-encoder available, the reranker returns   *)
(* min(top_k, candidates) candidates in non-increasing order of rerank     *)
(* score, none of them scored below a candidate it left out - also when    *)
(* candidates have equal scores.                                           *)
C26_RerankOrderDespiteTies ==
    (/\ InSimilaritySearch
     /\ call.args.rerank
     /\ call.env.reranker = "ok"
     /\ call.ret.initial_results # <<>>)
    => /\ Len(call.ret.results)
             = (IF Len(call.ret.initial_results) < call.args.top_k
                THEN Len(call.ret.initial_results) ELSE call.args.top_k)
       /\ \A n \in DOMAIN call.ret.results :
             n < Len(call.ret.results)
             => RerankScoreOf(call.ret.results[n]) >= RerankScoreOf(call.ret.results[n + 1])
       /\ \A n \in DOMAIN call.ret.results :
          \A m \in DOMAIN call.ret.initial_results :
             call.ret.initial_results[m] \notin Range(call.ret.results)
             => RerankScoreOf(call.ret.results[n])
                   >= RerankScoreOf(call.ret.initial_results[m])

InGetEmbeddings == call.op = "get_embeddings"

(* the run has created its temporary collection and not yet deleted it *)
TempInUse ==
    /\ InMigrate
    /\ call.pc \in {"get_info", "stage", "delete_original", "create_final", "copy",
                    "delete_temp"}

(* C27: get_embeddings and get_sparse_embeddings, when they return, give   *)
(* one output per input text, the i-th being the model's embedding of the  *)
(* i-th text; and at every moment of a migration of a collection without   *)
(* sparse support, each point staged in the temporary collection carries   *)
(* the sparse embedding of its own chunk text, or none when it has no      *)
(* text.                                                                   *)
C27_BatchOrderPreserved ==
    /\ (InGetEmbeddings /\ call.ret.exc = "none")
       => /\ Len(call.ret.value) = Len(call.args.texts)
          /\ \A i \in DOMAIN call.args.texts :
                call.ret.value[i] = ModelOf(call.args.fn, call.args.texts[i])
    /\ (TempInUse /\ ~call.before[MigratedName].sparse)
       => \A id \in DOMAIN collections[TempName(MigratedName)].points :
             LET point == collections[TempName(MigratedName)].points[id]
             IN  point.sparse = IF point.payload.chunk_text # ""
                                THEN SparseModel(point.payload.chunk_text)
                                ELSE NoSparse

(* a batch of two points staged, the first without text, the second with   *)
C27_Witness ==
    /\ TempInUse
    /\ ~call.before[MigratedName].sparse
    /\ call.args.batch_size = 2
    /\ DOMAIN collections[TempName(MigratedName)].points = {1, 2}
    /\ collections[TempName(MigratedName)].points[1].payload.chunk_text = ""
    /\ collections[TempName(MigratedName)].points[2].sparse
          = SparseModel("our refund policy")

(* the collection exists and holds every point the original held when the  *)
(* run began, with its dense vector and payload                            *)
HoldsEveryPoint(name) ==
    /\ name \in DOMAIN collections
    /\ \A id \in DOMAIN call.before[MigratedName].points :
          /\ id \in DOMAIN collections[name].points
          /\ collections[name].points[id].vector
                = call.before[MigratedName].points[id].vector
          /\ collections[name].points[id].payload
                = call.before[MigratedName].points[id].payload

(* C28 as stated: when a run of migrate_collection on an existing          *)
(* collection has returned False, the original name holds every point it   *)
(* held before the run; and however a run with a failed request ends, the  *)
(* points are all in the original or all in the temporary collection.      *)
C28_FailureKeepsCompleteCopy ==
    (MigrateEnded /\ MigratedName \in DOMAIN call.before /\ call.failed # "none")
    => /\ call.ret = "False" => HoldsEveryPoint(MigratedName)
       /\ HoldsEveryPoint(MigratedName) \/ HoldsEveryPoint(TempName(MigratedName))

(* C29 as stated: when a migration has returned True, every write the      *)
(* index accepted for the collection while the run was going on shows in   *)
(* the collection: a point upserted is there with the text last written, a *)
(* point deleted is not there.                                             *)
C29_ConcurrentWritesSurvive ==
    (MigrateEnded /\ call.ret = "True")
    => \A id \in DOMAIN Writes :
          IF Writes[id].op = "upsert"
          THEN /\ id \in DOMAIN collections[MigratedName].points
               /\ collections[MigratedName].points[id].payload.chunk_text = Writes[id].text
          ELSE id \notin DOMAIN collections[MigratedName].points

(* C30 as stated: two calls of create_collection for one name that was not *)
(* there when either began both return without an error and the collection *)
(* is there afterwards; and no call stands before its create request while *)
(* the collection has been created since the call looked.                  *)
C30_ConcurrentCreateBothSucceed ==
    \A t \in Threads : \A u \in Threads \ {t} :
       (/\ Creating(t) /\ Creating(u)
        /\ pc[t].name = pc[u].name
        /\ pc[t].absent /\ pc[u].absent)
       => /\ (pc[t].at = "returned" => out[t].exc = "none" /\ Exists(pc[t].name))
          /\ (pc[t].at = "create_collection" => ~Exists(pc[t].name))

====
